---- MODULE Spec2Model ----
(***************************************************************************)
(* FoxTrading i18n layer: the language detector (two builds of the class   *)
(* LanguageDetector), the translation store I18n and the application glue  *)
(* FoxTradingApp.                                                          *)
(*                                                                         *)
(* Language tags, URL parameters and browser languages are sequences of    *)
(* one-character strings, so that toLowerCase / replace / split are        *)
(* computed and not assumed.  Timestamps are whole days.                   *)
(* Definitions without suffix model assets/js/modules/language-detector.js *)
(* (the "Singapore market" build, async detectLanguage); definitions with  *)
(* the suffix _p3 model the build in src/unnamed/part_003 (sync).          *)
(***************************************************************************)
EXTENDS Integers, Sequences, FiniteSets, TLC

VARIABLES
    variant,        \* which LanguageDetector build is loaded: "sg" | "p3"
    config,         \* options the detector was constructed with
    location,       \* window.location (pathname segments, query parameters)
    timezone,       \* Intl.DateTimeFormat().resolvedOptions().timeZone
    languages,      \* navigator.languages
    storageAccess,  \* "ok" | "nearlyFull" (the third setItem throws) | "denied" (all throw)
    storage,        \* localStorage items of the detector's namespace
    now,            \* the clock, in days
    last,           \* the detector call just made: its kind, inputs and result
    userChoice,     \* history: the standing user choice and when it was last confirmed
    app,            \* FoxTradingApp: phase of init(), isInitialized, what init() saw
    i18n,           \* the I18n object: currentLanguage, translations, translationPromises
    promises,       \* the promises returned by _fetchTranslations, in creation order
    calls,          \* the async calls made on the store (init, setLanguage, preload)
    queue,          \* microtask queue: calls whose continuation is ready to run
    inTask,         \* the task that made the last call is still running
    events,         \* what emit() delivered, in order
    translated,     \* the translate() call just made: its arguments and what it returned
    lazy            \* the LazyLoader, the hero section and the images of the page

detVars == <<variant, config, location, timezone, languages, storageAccess,
             storage, now, last, userChoice>>

storeVars == <<app, i18n, promises, calls, queue, inTask, events, translated, lazy>>

vars == <<variant, config, location, timezone, languages, storageAccess,
          storage, now, last, userChoice, app, i18n, promises, calls, queue,
          inTask, events, translated, lazy>>

-----------------------------------------------------------------------------
(* Values *)

Null == <<"<null>">>
Undefined == <<"<undefined>">>
Absent == "<undefined>"
(* navigator.languages when reading it throws *)
ThrowsList == << <<"<throws>">> >>

Truthy(v) == v # Null /\ v # Undefined /\ v # <<>>

EN == <<"e", "n">>
ES == <<"e", "s">>
FR == <<"f", "r">>
EN_GB == <<"e", "n", "-", "G", "B">>
EN_SG == <<"e", "n", "-", "S", "G">>
EN_US == <<"e", "n", "-", "U", "S">>
ES_MX == <<"e", "s", "-", "M", "X">>
ES_ES_U == <<"e", "s", "_", "E", "S">>
FR_FR == <<"f", "r", "-", "F", "R">>
ABOUT == <<"a", "b", "o", "u", "t">>

(* String.prototype.toLowerCase, on the letters the model uses *)
lowerChar(c) ==
    CASE c = "A" -> "a" [] c = "B" -> "b" [] c = "E" -> "e" [] c = "F" -> "f"
      [] c = "G" -> "g" [] c = "M" -> "m" [] c = "N" -> "n" [] c = "R" -> "r"
      [] c = "S" -> "s" [] c = "U" -> "u" [] c = "X" -> "x"
      [] OTHER -> c

toLowerCase(s) == [i \in 1..Len(s) |-> lowerChar(s[i])]

(* String.prototype.replace(from, to) with string arguments: the first occurrence only *)
replaceFirst(s, from, to) ==
    IF \E i \in 1..Len(s) : s[i] = from
    THEN LET p == CHOOSE i \in 1..Len(s) : s[i] = from /\ \A j \in 1..(i - 1) : s[j] # from
         IN  [i \in 1..Len(s) |-> IF i = p THEN to ELSE s[i]]
    ELSE s

(* String.prototype.split(sep): every separator cuts, empty parts are kept *)
RECURSIVE split(_, _)
split(s, sep) ==
    IF \E i \in 1..Len(s) : s[i] = sep
    THEN LET p == CHOOSE i \in 1..Len(s) : s[i] = sep /\ \A j \in 1..(i - 1) : s[j] # sep
         IN  <<SubSeq(s, 1, p - 1)>> \o split(SubSeq(s, p + 1, Len(s)), sep)
    ELSE <<s>>

-----------------------------------------------------------------------------
(* LanguageDetector, assets/js/modules/language-detector.js *)

singaporeTimezones == {"Asia/Singapore", "Singapore"}

mexicanTimezones ==
    {"America/Mexico_City", "America/Cancun", "America/Merida", "America/Monterrey",
     "America/Mazatlan", "America/Chihuahua", "America/Hermosillo", "America/Tijuana",
     "America/Bahia_Banderas"}

englishRegionTimezones ==
    {"Asia/Hong_Kong", "Asia/Kuala_Lumpur", "Australia/Sydney", "Australia/Melbourne",
     "Pacific/Auckland", "Asia/Manila", "Asia/Bangkok", "Asia/Jakarta"}

(* this.detectionPriorities *)
PriorityStored == 8

(* mutant: the URL ranked no higher than a stored preference *)
PriorityUrl_lowered == PriorityStored

PriorityUrl == 10

(* mutant: the user override ranked above the URL *)
PriorityManual_aboveUrl == PriorityUrl + 1

PriorityManual == 9
PriorityTimezoneSingapore == 7
PriorityTimezoneMexico == 6
PriorityTimezoneEnglishRegion == 5
PriorityBrowserExact == 4
PriorityBrowserBase == 3
PriorityGeolocation == 2
PriorityDefault == 1

(* _isRecentDetection: "recent if less than 30 days old" *)
RecencyDays == 30

(* the four localStorage items, in the order _storeDetection writes them *)
StorageKeys == <<"language", "detectionMethod", "lastDetection", "userOverride">>

hasItem(st, key) == key \in DOMAIN st

(* a signal: the result object of one _detectFromX; priority is meaningful only
   when detected; threw marks an exception that escaped the source *)
Signal(src, det, lang, prio, meth) ==
    [source |-> src, detected |-> det, language |-> lang, priority |-> prio,
     method |-> meth, threw |-> FALSE]

(* _normalizeLanguageCode *)
normalizeLanguageCode(cfg, langCode) ==
    IF ~Truthy(langCode) THEN Null
    ELSE LET clean == replaceFirst(toLowerCase(langCode), "_", "-")
             parts == split(clean, "-")
             base  == parts[1]
         IN  IF base = ES THEN ES_MX
             ELSE IF base = EN THEN EN_GB
             ELSE IF clean \in cfg.supportedLanguages THEN clean
             ELSE Null

(* urlParams.get('lang') || urlParams.get('language') || urlParams.get('locale') *)
langParam(loc) ==
    IF Truthy(loc.lang) THEN loc.lang
    ELSE IF Truthy(loc.language) THEN loc.language
    ELSE loc.locale

(* _detectFromURL *)
detectFromURL(cfg, loc) ==
    IF loc.throws THEN Signal("url", FALSE, Null, PriorityUrl, Absent)
    ELSE IF Len(loc.segments) > 0 /\ loc.segments[1] \in cfg.supportedLanguages
    THEN Signal("url", TRUE, loc.segments[1], PriorityUrl, "path")
    ELSE LET p == langParam(loc)
             n == normalizeLanguageCode(cfg, p)
         IN  IF Truthy(p) /\ n \in cfg.supportedLanguages
             THEN Signal("url", TRUE, n, PriorityUrl, "query")
             ELSE Signal("url", FALSE, Null, PriorityUrl, Absent)

(* _detectFromStorage *)
detectFromStorage(cfg, access, st) ==
    IF access = "denied" THEN Signal("storage", FALSE, Null, PriorityStored, Absent)
    ELSE IF hasItem(st, "language") /\ Truthy(st.language)
            /\ st.language \in cfg.supportedLanguages
    THEN IF hasItem(st, "userOverride") /\ st.userOverride = "true"
         THEN Signal("storage", TRUE, st.language, PriorityManual, Absent)
         ELSE Signal("storage", TRUE, st.language, PriorityStored, Absent)
    ELSE Signal("storage", FALSE, Null, PriorityStored, Absent)

(* mutant: a detection exactly 30 days old still counts as recent *)
isRecentDetection_inclusive(access, st, t) ==
    IF access = "denied" THEN FALSE
    ELSE IF ~hasItem(st, "lastDetection") THEN FALSE
    ELSE (t - st.lastDetection) <= RecencyDays

(* _isRecentDetection *)
isRecentDetection(access, st, t) ==
    IF access = "denied" THEN FALSE
    ELSE IF ~hasItem(st, "lastDetection") THEN FALSE
    ELSE (t - st.lastDetection) < RecencyDays

(* mutant: the timezone lookup without its try/catch *)
detectFromTimezone_nocatch(tz) ==
    IF tz = "<throws>"
    THEN [Signal("timezone", FALSE, Null, 0, Absent) EXCEPT !.threw = TRUE]
    ELSE IF tz \in singaporeTimezones
    THEN Signal("timezone", TRUE, EN_GB, PriorityTimezoneSingapore, Absent)
    ELSE IF tz \in mexicanTimezones
    THEN Signal("timezone", TRUE, ES_MX, PriorityTimezoneMexico, Absent)
    ELSE IF tz \in englishRegionTimezones
    THEN Signal("timezone", TRUE, EN_GB, PriorityTimezoneEnglishRegion, Absent)
    ELSE Signal("timezone", FALSE, Null, 0, Absent)

(* _detectFromTimezone *)
detectFromTimezone(tz) ==
    IF tz = "<throws>" THEN Signal("timezone", FALSE, Null, 0, Absent)
    ELSE IF tz \in singaporeTimezones
    THEN Signal("timezone", TRUE, EN_GB, PriorityTimezoneSingapore, Absent)
    ELSE IF tz \in mexicanTimezones
    THEN Signal("timezone", TRUE, ES_MX, PriorityTimezoneMexico, Absent)
    ELSE IF tz \in englishRegionTimezones
    THEN Signal("timezone", TRUE, EN_GB, PriorityTimezoneEnglishRegion, Absent)
    ELSE Signal("timezone", FALSE, Null, 0, Absent)

(* _normalizeBrowserLanguage; a null entry makes toLowerCase throw, which is caught *)
normalizeBrowserLanguage(browserLang) ==
    IF browserLang = Null \/ browserLang = Undefined
    THEN [full |-> Null, base |-> Null, region |-> Null]
    ELSE LET clean == replaceFirst(toLowerCase(browserLang), "_", "-")
             parts == split(clean, "-")
             base  == parts[1]
             region == IF Len(parts) > 1 THEN parts[2] ELSE Undefined
         IN  [full |-> IF base = ES THEN ES_MX ELSE IF base = EN THEN EN_GB ELSE base,
              base |-> base, region |-> region]

(* the loop of _detectFromBrowser from entry i on, r the result so far *)
RECURSIVE browserLoop(_, _, _, _)
browserLoop(cfg, langs, i, r) ==
    IF i > Len(langs) THEN r
    ELSE LET n == normalizeBrowserLanguage(langs[i])
         IN  IF n.full \in cfg.supportedLanguages
             THEN Signal("browser", TRUE, n.full, PriorityBrowserExact, Absent)
             ELSE IF n.base \in cfg.supportedLanguages
             THEN browserLoop(cfg, langs, i + 1,
                              Signal("browser", TRUE, n.base, PriorityBrowserBase, Absent))
             ELSE browserLoop(cfg, langs, i + 1, r)

(* _detectFromBrowser *)
detectFromBrowser(cfg, langs) ==
    IF langs = ThrowsList THEN Signal("browser", FALSE, Null, 0, Absent)
    ELSE browserLoop(cfg, langs, 1, Signal("browser", FALSE, Null, 0, Absent))

(* the coordinate tests of _detectFromGeolocation, in tenths of a degree *)
geoCountry(lat, lon) ==
    IF lat >= 11 /\ lat <= 15 /\ lon >= 1036 /\ lon <= 1040 THEN EN_GB
    ELSE IF lat >= 140 /\ lat <= 330 /\ lon >= -1180 /\ lon <= -860 THEN ES_MX
    ELSE IF lat >= 10 /\ lat <= 70 /\ lon >= 1000 /\ lon <= 1190 THEN EN_GB
    ELSE IF lat >= -110 /\ lat <= 60 /\ lon >= 950 /\ lon <= 1410 THEN EN_GB
    ELSE IF lat >= 40 /\ lat <= 210 /\ lon >= 1160 /\ lon <= 1270 THEN EN_GB
    ELSE IF lat >= 50 /\ lat <= 210 /\ lon >= 970 /\ lon <= 1060 THEN EN_GB
    ELSE Null

(* _detectFromGeolocation: the promise always resolves; an exception thrown in
   the executor rejects it, and detectLanguage catches the rejection *)
detectFromGeolocation(geo) ==
    IF geo.kind = "throws"
    THEN [Signal("geolocation", FALSE, Null, PriorityGeolocation, Absent) EXCEPT !.threw = TRUE]
    ELSE IF geo.kind = "position" /\ geoCountry(geo.lat, geo.lon) # Null
    THEN Signal("geolocation", TRUE, geoCountry(geo.lat, geo.lon), PriorityGeolocation, Absent)
    ELSE Signal("geolocation", FALSE, Null, PriorityGeolocation, Absent)

(* the options of detectLanguage, with their defaults *)
DefaultOptions ==
    [checkURL |-> TRUE, checkStorage |-> TRUE, checkBrowser |-> TRUE,
     checkTimezone |-> TRUE, checkGeolocation |-> FALSE, respectUserChoice |-> TRUE]

(* bestResult = { ...signal, signals } *)
adopt(sig) ==
    [language |-> sig.language, method |-> sig.method, priority |-> sig.priority,
     source |-> sig.source]

(* one "if (checkX) { ... }" block of detectLanguage: push the signal, adopt it when
   it is detected with a higher priority (and extra holds); an exception that
   escaped the source leaves for the outer catch *)
consider(acc, enabled, sig, extra) ==
    IF acc.threw \/ ~enabled THEN acc
    ELSE IF sig.threw THEN [acc EXCEPT !.threw = TRUE]
    ELSE [best |-> IF sig.detected /\ sig.priority > acc.best.priority /\ extra
                   THEN adopt(sig) ELSE acc.best,
          signals |-> Append(acc.signals, sig),
          threw |-> FALSE]

(* the geolocation block has its own try/catch around the await *)
considerGeolocation(acc, enabled, sig) ==
    IF acc.threw \/ ~enabled \/ sig.threw THEN acc
    ELSE consider(acc, enabled, sig, TRUE)

(* mutant: no final validation *)
finalValidation_skipped(cfg, best) == best

(* "Final validation and fallback" *)
finalValidation(cfg, best) ==
    IF best.language \notin cfg.supportedLanguages
    THEN [best EXCEPT !.language = cfg.fallbackLanguage, !.method = "fallback",
                      !.priority = PriorityDefault]
    ELSE best

(* detectLanguage: the value the returned promise resolves to; persisted tells
   whether _storeDetection(bestResult) was called on the way *)
detectLanguage(cfg, opts, loc, access, st, t, tz, langs, geo) ==
    LET a0 == [best |-> [language |-> cfg.defaultLanguage, method |-> "default",
                         priority |-> PriorityDefault, source |-> Absent],
               signals |-> <<>>, threw |-> FALSE]
        a1 == consider(a0, opts.checkURL, detectFromURL(cfg, loc), TRUE)
        a2 == consider(a1, opts.checkStorage /\ opts.respectUserChoice,
                       detectFromStorage(cfg, access, st), isRecentDetection(access, st, t))
        a3 == consider(a2, opts.checkTimezone, detectFromTimezone(tz), TRUE)
        a4 == consider(a3, opts.checkBrowser, detectFromBrowser(cfg, langs), TRUE)
        a5 == considerGeolocation(a4, opts.checkGeolocation, detectFromGeolocation(geo))
        v  == finalValidation(cfg, a5.best)
    IN  IF a5.threw
        THEN [language |-> cfg.fallbackLanguage, method |-> "error_fallback", priority |-> 0,
              source |-> Absent, signals |-> a5.signals, persisted |-> FALSE]
        ELSE [language |-> v.language, method |-> v.method, priority |-> v.priority,
              source |-> v.source, signals |-> a5.signals, persisted |-> TRUE]

(* how many setItem calls of one _storeDetection succeed: all; or, in a nearly
   full storage, the two short ones before the 24-character timestamp makes
   setItem throw, which ends the function; or none *)
itemsWritten(access, items) ==
    IF access = "ok" THEN Len(items)
    ELSE IF access = "nearlyFull" THEN 2
    ELSE 0

(* localStorage after the setItem calls of a _storeDetection; an exception is swallowed *)
writeItems(access, st, items) ==
    LET k == itemsWritten(access, items)
    IN  [key \in DOMAIN st \cup {items[i][1] : i \in 1..k} |->
            IF \E i \in 1..k : items[i][1] = key
            THEN items[CHOOSE i \in 1..k : items[i][1] = key][2]
            ELSE st[key]]

(* _storeDetection(detectionResult, isUserChoice) *)
storeDetection(access, st, result, isUserChoice, t) ==
    writeItems(access, st,
               << <<"language", result.language>>,
                  <<"detectionMethod", IF result.method = Absent THEN "unknown" ELSE result.method>>,
                  <<"lastDetection", t>>,
                  <<"userOverride", IF isUserChoice THEN "true" ELSE "false">> >>)

(* clearPreferences: removeItem for every key; a throw is caught *)
clearPreferences(access, st) ==
    IF access = "denied" THEN st ELSE <<>>

-----------------------------------------------------------------------------
(* LanguageDetector, src/unnamed/part_003 *)

(* _detectFromURL: urlParams.get('lang') || urlParams.get('language'), not normalised *)
detectFromURL_p3(cfg, loc) ==
    IF loc.throws THEN Signal("url", FALSE, Null, 0, Absent)
    ELSE IF Len(loc.segments) > 0 /\ loc.segments[1] \in cfg.supportedLanguages
    THEN Signal("url", TRUE, loc.segments[1], 0, "path")
    ELSE LET p == IF Truthy(loc.lang) THEN loc.lang ELSE loc.language
         IN  IF Truthy(p) /\ p \in cfg.supportedLanguages
             THEN Signal("url", TRUE, p, 0, "query")
             ELSE Signal("url", FALSE, Null, 0, Absent)

(* _detectFromStorage *)
detectFromStorage_p3(cfg, access, st) ==
    IF access = "denied" THEN Signal("storage", FALSE, Null, 0, Absent)
    ELSE IF hasItem(st, "language") /\ Truthy(st.language)
            /\ st.language \in cfg.supportedLanguages
    THEN Signal("storage", TRUE, st.language, 0, Absent)
    ELSE Signal("storage", FALSE, Null, 0, Absent)

(* _isRecentDetection *)
isRecentDetection_p3(access, st, t) ==
    IF access = "denied" THEN FALSE
    ELSE IF ~hasItem(st, "lastDetection") THEN FALSE
    ELSE (t - st.lastDetection) < RecencyDays

(* _normalizeBrowserLanguage *)
normalizeBrowserLanguage_p3(browserLang) ==
    IF browserLang = Null \/ browserLang = Undefined
    THEN [full |-> Null, base |-> Null, region |-> Null]
    ELSE LET clean == replaceFirst(toLowerCase(browserLang), "_", "-")
             parts == split(clean, "-")
             base  == parts[1]
             region == IF Len(parts) > 1 THEN parts[2] ELSE Undefined
         IN  [full |-> IF base = ES THEN ES_MX ELSE IF base = EN THEN EN ELSE base,
              base |-> base, region |-> region]

(* the loop of _detectFromBrowser: the first entry that matches, exactly or by
   its base language, ends the loop *)
RECURSIVE browserLoop_p3(_, _, _)
browserLoop_p3(cfg, langs, i) ==
    IF i > Len(langs) THEN Signal("browser", FALSE, Null, 0, Absent)
    ELSE LET n == normalizeBrowserLanguage_p3(langs[i])
         IN  IF n.full \in cfg.supportedLanguages
             THEN Signal("browser", TRUE, n.full, 0, Absent)
             ELSE IF n.base \in cfg.supportedLanguages
             THEN Signal("browser", TRUE, n.base, 0, Absent)
             ELSE browserLoop_p3(cfg, langs, i + 1)

(* _detectFromBrowser *)
detectFromBrowser_p3(cfg, langs) ==
    IF langs = ThrowsList THEN Signal("browser", FALSE, Null, 0, Absent)
    ELSE browserLoop_p3(cfg, langs, 1)

(* _detectFromTimezone *)
detectFromTimezone_p3(tz) ==
    IF tz = "<throws>" THEN Signal("timezone", FALSE, Null, 0, Absent)
    ELSE IF tz \in mexicanTimezones THEN Signal("timezone", TRUE, ES_MX, 0, Absent)
    ELSE Signal("timezone", FALSE, Null, 0, Absent)

(* detectLanguage: the URL branch stores and returns; the stored branch returns
   without storing; browser, then timezone (only es-MX overrides), then the
   final validation, are stored *)
detectLanguage_p3(cfg, opts, loc, access, st, t, tz, langs) ==
    LET urlLang == detectFromURL_p3(cfg, loc)
        storedLang == detectFromStorage_p3(cfg, access, st)
        browserLang == detectFromBrowser_p3(cfg, langs)
        timezoneLang == detectFromTimezone_p3(tz)
        r0 == [language |-> cfg.defaultLanguage, method |-> "default"]
        r1 == IF opts.checkBrowser /\ browserLang.detected
              THEN [language |-> browserLang.language, method |-> "browser"] ELSE r0
        r2 == IF opts.checkTimezone /\ timezoneLang.detected /\ timezoneLang.language = ES_MX
              THEN [language |-> timezoneLang.language, method |-> "timezone"] ELSE r1
        r3 == IF r2.language \notin cfg.supportedLanguages
              THEN [language |-> cfg.fallbackLanguage, method |-> "fallback"] ELSE r2
        sigs == (IF opts.checkBrowser THEN <<browserLang>> ELSE <<>>)
                \o (IF opts.checkTimezone THEN <<timezoneLang>> ELSE <<>>)
        err == [language |-> cfg.fallbackLanguage, method |-> "error_fallback", priority |-> 0,
                source |-> Absent, signals |-> <<>>, persisted |-> FALSE]
    IN  IF opts.checkURL /\ urlLang.threw THEN err
        ELSE IF opts.checkURL /\ urlLang.detected
        THEN [language |-> urlLang.language, method |-> "url", priority |-> 0,
              source |-> Absent, signals |-> <<urlLang>>, persisted |-> TRUE]
        ELSE IF opts.checkStorage /\ opts.respectUserChoice /\ storedLang.threw THEN err
        ELSE IF opts.checkStorage /\ opts.respectUserChoice /\ storedLang.detected
                /\ isRecentDetection_p3(access, st, t)
        THEN [language |-> storedLang.language, method |-> "stored", priority |-> 0,
              source |-> Absent, signals |-> <<storedLang>>, persisted |-> FALSE]
        ELSE IF (opts.checkBrowser /\ browserLang.threw) \/ (opts.checkTimezone /\ timezoneLang.threw)
        THEN err
        ELSE [language |-> r3.language, method |-> r3.method, priority |-> 0,
              source |-> Absent, signals |-> sigs, persisted |-> TRUE]

(* _storeDetection(detectionResult): three items *)
storeDetection_p3(access, st, result, t) ==
    writeItems(access, st,
               << <<"language", result.language>>,
                  <<"detectionMethod", result.method>>,
                  <<"lastDetection", t>> >>)

-----------------------------------------------------------------------------
(* The detector as a state machine: one action per public method *)

SgConfig == [supportedLanguages |-> {EN_GB, ES_MX}, defaultLanguage |-> EN_GB,
             fallbackLanguage |-> EN_GB]

AppConfig == [supportedLanguages |-> {EN, ES_MX}, defaultLanguage |-> EN,
              fallbackLanguage |-> EN]

(* a caller's own options: the default language is not a supported one *)
OddConfig == [supportedLanguages |-> {EN, ES_MX}, defaultLanguage |-> FR,
              fallbackLanguage |-> ES_MX]

Deployments ==
    {<<"sg", SgConfig>>, <<"sg", AppConfig>>, <<"p3", AppConfig>>, <<"p3", OddConfig>>}

Loc(segs, l1, l2, l3) ==
    [throws |-> FALSE, segments |-> segs, lang |-> l1, language |-> l2, locale |-> l3]

Locations ==
    {Loc(<<>>, Null, Null, Null),
     Loc(<<ES_MX>>, Null, Null, Null),
     Loc(<<ABOUT>>, EN, Null, Null),
     Loc(<<>>, Null, Null, ES),
     [Loc(<<>>, Null, Null, Null) EXCEPT !.throws = TRUE]}

Timezones == {"Asia/Singapore", "America/Mexico_City", "Europe/Paris", "<throws>"}

BrowserLists == {<<EN_US>>, <<Null, FR_FR, ES_ES_U>>, ThrowsList}

NoGeo == [kind |-> "unsupported", lat |-> 0, lon |-> 0]

GeoOutcomes ==
    {NoGeo,
     [kind |-> "throws", lat |-> 0, lon |-> 0],
     [kind |-> "position", lat |-> 13, lon |-> 1038],
     [kind |-> "position", lat |-> 194, lon |-> -991],
     [kind |-> "position", lat |-> 488, lon |-> 23]}

GeoOptions == [DefaultOptions EXCEPT !.checkGeolocation = TRUE]
NoStorageOptions == [DefaultOptions EXCEPT !.checkStorage = FALSE]

MaxNow == 58
Gaps == {RecencyDays - 1, RecencyDays}
PreferenceTags == {EN, ES_MX, EN_GB}

NoChoice == [active |-> FALSE, language |-> Null, madeAt |-> 0, confirmedAt |-> 0]
NoCall == [kind |-> "none"]

(* before FoxTradingApp.init(): this.i18n = null, this.isInitialized = false;
   build: which FoxTradingApp is loaded, "app.js" | "part_005" *)
NoApp == [phase |-> "new", isInitialized |-> FALSE, detected |-> Null,
          detectionLanguage |-> Null, constructedWith |-> Null, build |-> "app.js"]
NoI18n == [currentLanguage |-> Null, fallbackLanguage |-> Null, supportedLanguages |-> {},
           translations |-> <<>>, translationPromises |-> <<>>]

(* no LazyLoader was constructed *)
NoLazy == [initialized |-> FALSE, isHeroVisible |-> FALSE, heroRatio |-> 0,
           heroEntries |-> {}, img |-> <<>>]

DetInit ==
    /\ \E d \in Deployments : variant = d[1] /\ config = d[2]
    /\ location \in Locations
    /\ timezone \in Timezones
    /\ languages \in BrowserLists
    /\ storageAccess \in {"ok", "nearlyFull", "denied"}
    /\ storage = <<>>
    /\ now = 0
    /\ last = NoCall
    /\ userChoice = NoChoice
    /\ app = NoApp
    /\ i18n = NoI18n
    /\ promises = <<>>
    /\ calls = <<>>
    /\ queue = <<>>
    /\ inTask = FALSE
    /\ events = <<>>
    /\ translated = NoCall
    /\ lazy = NoLazy

(* the call this.detector.detectLanguage(opts) of the loaded build *)
detect(opts, st, geo) ==
    IF variant = "sg"
    THEN detectLanguage(config, opts, location, storageAccess, st, now, timezone, languages, geo)
    ELSE detectLanguage_p3(config, opts, location, storageAccess, st, now, timezone, languages)

(* storage after the _storeDetection of a detection (when the path calls it) *)
stored(result, st) ==
    IF ~result.persisted THEN st
    ELSE IF variant = "sg" THEN storeDetection(storageAccess, st, result, FALSE, now)
    ELSE storeDetection_p3(storageAccess, st, result, now)

urlSignal == IF variant = "sg" THEN detectFromURL(config, location)
             ELSE detectFromURL_p3(config, location)

storedSignal(st) == IF variant = "sg" THEN detectFromStorage(config, storageAccess, st)
                    ELSE detectFromStorage_p3(config, storageAccess, st)

(* what the call found in localStorage: the stored signal, whether it was recent,
   whether it was recorded as the user's own choice *)
preState(st) ==
    [stored |-> storedSignal(st),
     recent |-> /\ storageAccess # "denied" /\ hasItem(st, "lastDetection")
                /\ now - st.lastDetection < RecencyDays,
     hasTime |-> storageAccess # "denied" /\ hasItem(st, "lastDetection"),
     age |-> IF storageAccess # "denied" /\ hasItem(st, "lastDetection")
             THEN now - st.lastDetection ELSE 0,
     manual |-> /\ storageAccess = "ok"
                /\ IF variant = "sg"
                   THEN hasItem(st, "userOverride") /\ st.userOverride = "true"
                   ELSE hasItem(st, "detectionMethod") /\ st.detectionMethod = "manual"]

written == storageAccess = "ok"

(* the standing user choice holds for this call when the call reads storage,
   comes less than 30 days after the choice was last confirmed and the URL
   carries no language *)
choiceInForce(opts) ==
    /\ userChoice.active
    /\ opts.checkStorage /\ opts.respectUserChoice
    /\ now - userChoice.confirmedAt < RecencyDays
    /\ ~urlSignal.detected

DetectLanguage(opts, geo) ==
    /\ opts.checkGeolocation => variant = "sg"
    /\ ~opts.checkGeolocation => geo = NoGeo
    /\ LET r == detect(opts, storage, geo)
       IN  /\ storage' = stored(r, storage)
           /\ last' = [kind |-> "detect", opts |-> opts, geo |-> geo, result |-> r,
                       pre |-> preState(storage), at |-> now, written |-> written,
                       choice |-> IF choiceInForce(opts) THEN userChoice ELSE NoChoice]
           /\ userChoice' = IF choiceInForce(opts) /\ written
                            THEN [userChoice EXCEPT !.confirmedAt = now] ELSE NoChoice
    /\ UNCHANGED <<variant, config, location, timezone, languages, storageAccess, now>>
    /\ UNCHANGED storeVars

(* refreshDetection: clear the stored preferences, detect without storage *)
RefreshDetection ==
    /\ LET cleared == clearPreferences(storageAccess, storage)
           r == detect(NoStorageOptions, cleared, NoGeo)
       IN  /\ storage' = stored(r, cleared)
           /\ last' = [kind |-> "refresh", opts |-> NoStorageOptions, geo |-> NoGeo, result |-> r,
                       pre |-> preState(cleared), at |-> now, written |-> written,
                       choice |-> NoChoice]
    /\ userChoice' = NoChoice
    /\ UNCHANGED <<variant, config, location, timezone, languages, storageAccess, now>>
    /\ UNCHANGED storeVars

(* setLanguagePreference(language): throws for an unsupported language *)
SetLanguagePreference(t) ==
    /\ IF t \notin config.supportedLanguages
       THEN /\ last' = [kind |-> "setPreferenceThrew", language |-> t]
            /\ UNCHANGED <<storage, userChoice>>
       ELSE LET r == [language |-> t, method |-> "manual", priority |-> PriorityManual]
            IN  /\ storage' = IF variant = "sg"
                              THEN storeDetection(storageAccess, storage, r, TRUE, now)
                              ELSE storeDetection_p3(storageAccess, storage, r, now)
                /\ last' = [kind |-> "setPreference", language |-> t, at |-> now,
                            written |-> written]
                /\ userChoice' = IF written
                                 THEN [active |-> TRUE, language |-> t, madeAt |-> now, confirmedAt |-> now]
                                 ELSE NoChoice
    /\ UNCHANGED <<variant, config, location, timezone, languages, storageAccess, now>>
    /\ UNCHANGED storeVars

ClearPreferences ==
    /\ storage' = clearPreferences(storageAccess, storage)
    /\ last' = [kind |-> "clear"]
    /\ userChoice' = NoChoice
    /\ UNCHANGED <<variant, config, location, timezone, languages, storageAccess, now>>
    /\ UNCHANGED storeVars

(* time passes between two visits *)
Tick(d) ==
    /\ now + d <= MaxNow
    /\ now' = now + d
    /\ last' = NoCall
    /\ UNCHANGED <<variant, config, location, timezone, languages, storageAccess, storage,
                   userChoice>>
    /\ UNCHANGED storeVars

DetNext ==
    \/ \E opts \in {DefaultOptions, GeoOptions}, geo \in GeoOutcomes : DetectLanguage(opts, geo)
    \/ RefreshDetection
    \/ \E t \in PreferenceTags : SetLanguagePreference(t)
    \/ ClearPreferences
    \/ \E d \in Gaps : Tick(d)

SpecDetect == DetInit /\ [][DetNext]_vars

-----------------------------------------------------------------------------
(* Properties of the detector *)

Detected == last.kind \in {"detect", "refresh"}

(* C1: the language of every detection result is a supported language, whatever
   the URL, storage, timezone, browser and geolocation inputs are (throwing
   sources included), when the fallback language is a supported one *)
C1_ResultLanguageSupported ==
    (Detected /\ config.fallbackLanguage \in config.supportedLanguages)
        => last.result.language \in config.supportedLanguages

(* an unsupported candidate was coerced while a source threw *)
C1_Witness ==
    /\ last.kind = "detect"
    /\ last.result.method = "fallback"
    /\ last.result.language = config.fallbackLanguage
    /\ languages = ThrowsList

(* C4: when the URL signal detects a supported tag, that tag is the result,
   whatever storage, timezone, browser and geolocation say *)
C4_UrlWins ==
    (last.kind = "detect" /\ last.opts.checkURL /\ urlSignal.detected)
        => /\ urlSignal.language \in config.supportedLanguages
           /\ last.result.language = urlSignal.language

(* the URL won against a recent user override for another language *)
C4_Witness ==
    /\ last.kind = "detect"
    /\ urlSignal.detected
    /\ last.pre.stored.detected /\ last.pre.recent /\ last.pre.manual
    /\ last.pre.stored.language # urlSignal.language
    /\ last.result.language = urlSignal.language

(* a recent stored user override for m, and a URL that carries another supported tag *)
OverrideAgainstUrl ==
    /\ last.kind = "detect"
    /\ last.opts.checkURL /\ last.opts.checkStorage
    /\ last.pre.stored.detected /\ last.pre.recent /\ last.pre.manual
    /\ urlSignal.detected
    /\ urlSignal.language # last.pre.stored.language

C6_StaleStoredIgnored ==
    (/\ last.kind = "detect"
     /\ last.pre.stored.detected
     /\ ~last.pre.recent
     /\ ~urlSignal.detected)
        => /\ last.result.language =
                  detect([last.opts EXCEPT !.checkStorage = FALSE], <<>>, last.geo).language
           /\ last.result.method # "stored"
           /\ last.result.source # "storage"

(* a preference exactly 30 days old lost against another signal *)
C6_Witness ==
    /\ last.kind = "detect"
    /\ last.pre.stored.detected /\ last.pre.hasTime /\ last.pre.age = RecencyDays
    /\ ~urlSignal.detected
    /\ last.result.language # last.pre.stored.language

(* C7 as stated: once the user chose t, every later detection that reads storage,
   comes less than 30 days after the previous one and sees no language in the
   URL returns t *)
C7_UserChoiceSurvives ==
    (last.kind = "detect" /\ last.choice.active)
        => last.result.language = last.choice.language

(* C7 in language-detector.js alone, where every detection stores a new timestamp *)
C7_SurvivesInSgBuild ==
    (variant = "sg" /\ last.kind = "detect" /\ last.choice.active)
        => last.result.language = last.choice.language

(* the choice is older than 30 days, was kept alive by the visits in between,
   and the timezone votes for another language *)
C7_SgWitness ==
    /\ variant = "sg" /\ last.kind = "detect" /\ last.choice.active
    /\ last.at - last.choice.madeAt >= RecencyDays
    /\ detectFromTimezone(timezone).detected
    /\ detectFromTimezone(timezone).language # last.choice.language
    /\ last.result.language = last.choice.language

(* C8 as stated: after a detection that returned normally with storage writable
   the persisted record holds the result's language and method and a timestamp
   of this resolution *)
C8_ResultPersisted ==
    (last.kind = "detect" /\ last.written /\ last.result.method # "error_fallback")
        => /\ hasItem(storage, "language") /\ storage.language = last.result.language
           /\ hasItem(storage, "detectionMethod") /\ storage.detectionMethod = last.result.method
           /\ hasItem(storage, "lastDetection") /\ storage.lastDetection = last.at

(* the sources of the signals a detection collected *)
signalSources(r) == [i \in 1..Len(r.signals) |-> r.signals[i].source]

enabledSources(opts, geo) ==
    (IF opts.checkURL THEN <<"url">> ELSE <<>>)
    \o (IF opts.checkStorage /\ opts.respectUserChoice THEN <<"storage">> ELSE <<>>)
    \o (IF opts.checkTimezone THEN <<"timezone">> ELSE <<>>)
    \o (IF opts.checkBrowser THEN <<"browser">> ELSE <<>>)
    \o (IF opts.checkGeolocation /\ geo.kind # "throws" THEN <<"geolocation">> ELSE <<>>)

sourceThrows(src) ==
    \/ src = "url" /\ location.throws
    \/ src = "storage" /\ storageAccess = "denied"
    \/ src = "timezone" /\ timezone = "<throws>"
    \/ src = "browser" /\ languages = ThrowsList

(* C9: a detection always returns a result of its own (never the outer catch's);
   a source that throws counts as not detected, and every other enabled source
   is still evaluated (language-detector.js collects one signal per enabled source) *)
C9_SourcesFailSoft ==
    Detected
        => /\ last.result.method # "error_fallback"
           /\ \A i \in 1..Len(last.result.signals) :
                 sourceThrows(last.result.signals[i].source) => ~last.result.signals[i].detected
           /\ variant = "sg" => signalSources(last.result) = enabledSources(last.opts, last.geo)

(* the timezone lookup threw, geolocation rejected, and the browser list decided *)
C9_Witness ==
    /\ variant = "sg" /\ last.kind = "detect"
    /\ timezone = "<throws>" /\ last.opts.checkGeolocation /\ last.geo.kind = "throws"
    /\ last.result.source = "browser"

-----------------------------------------------------------------------------
(* The translation store I18n (src/unnamed/part_004) and FoxTradingApp.init  *)
(*                                                                           *)
(* A dictionary is named by the tag of the file it was parsed from.  An     *)
(* async method is a call frame in calls: its synchronous part runs in the  *)
(* action that makes the call, its continuation when the frame leaves the   *)
(* microtask queue.  A fetch settles in a task of its own, which the event  *)
(* loop starts only when the microtask queue is empty.                      *)

MaxCalls == 2

put(f, k, v) == [x \in (DOMAIN f) \cup {k} |-> IF x = k THEN v ELSE f[x]]
remove(f, k) == [x \in (DOMAIN f) \ {k} |-> f[x]]

world == [i18n |-> i18n, promises |-> promises, calls |-> calls, queue |-> queue,
          events |-> events]

become(W) ==
    /\ i18n' = W.i18n
    /\ promises' = W.promises
    /\ calls' = W.calls
    /\ queue' = W.queue
    /\ events' = W.events

(* a call frame; promise 0: the call awaits no fetch; requested: the tag the
   caller passed, lang: the tag the call loads *)
Frame(W, kind, lang, call) ==
    [kind |-> kind, lang |-> lang, requested |-> lang, call |-> call, promise |-> 0,
     owner |-> FALSE,
     status |-> "waiting", outcome |-> "none",
     eventsBefore |-> Len(W.events),
     pendingBefore |-> {i \in DOMAIN W.calls : W.calls[i].status \in {"waiting", "runnable"}}]

(* new I18n(options) *)
I18nConstructor(options) ==
    [currentLanguage |-> IF Truthy(options.defaultLanguage)
                         THEN options.defaultLanguage ELSE EN_SG,
     fallbackLanguage |-> IF Truthy(options.fallbackLanguage)
                          THEN options.fallbackLanguage ELSE EN_SG,
     supportedLanguages |-> options.supportedLanguages,
     translations |-> <<>>,
     translationPromises |-> <<>>]

(* a store that fetches on every load, consulting neither cache nor pending loads *)
loadTranslations_alwaysFetches(W, fr) ==
    LET p == Len(W.promises) + 1
    IN  [W EXCEPT !.promises = Append(@, [lang |-> fr.lang, state |-> "pending", value |-> Null]),
                  !.i18n.translationPromises = put(@, fr.lang, p),
                  !.calls = Append(@, [fr EXCEPT !.promise = p, !.owner = TRUE])]

(* loadTranslations(lang), up to its await, called from the frame fr *)
loadTranslations(W, fr) ==
    LET o == W.i18n
        id == Len(W.calls) + 1
    IN  IF fr.lang \in DOMAIN o.translations
        THEN [W EXCEPT !.calls = Append(@, [fr EXCEPT !.status = "runnable", !.outcome = "ok"]),
                       !.queue = Append(@, id)]
        ELSE IF fr.lang \in DOMAIN o.translationPromises
        THEN [W EXCEPT !.calls = Append(@, [fr EXCEPT !.promise = o.translationPromises[fr.lang]])]
        ELSE LET p == Len(W.promises) + 1
             IN  [W EXCEPT !.promises = Append(@, [lang |-> fr.lang, state |-> "pending",
                                                    value |-> Null]),
                           !.i18n.translationPromises = put(@, fr.lang, p),
                           !.calls = Append(@, [fr EXCEPT !.promise = p, !.owner = TRUE])]

(* init(), up to its await *)
init(W) == loadTranslations(W, Frame(W, "init", W.i18n.currentLanguage, 0))

(* a store whose setLanguage takes the tag as given *)
setLanguage_noCoercion(W, requested, call) ==
    LET o == W.i18n
        fr == Frame(W, "setLanguage", requested, call)
    IN  IF requested = o.currentLanguage
        THEN [W EXCEPT !.calls = Append(@, [fr EXCEPT !.status = "noop"])]
        ELSE loadTranslations(W, fr)

(* a store whose setLanguage loads and switches even to the active language *)
setLanguage_alwaysLoads(W, requested, call) ==
    LET o == W.i18n
        lang == IF requested \notin o.supportedLanguages THEN o.fallbackLanguage ELSE requested
    IN  loadTranslations(W, [Frame(W, "setLanguage", lang, call) EXCEPT !.requested = requested])

(* setLanguage(lang), up to its await *)
setLanguage(W, requested, call) ==
    LET o == W.i18n
        lang == IF requested \notin o.supportedLanguages THEN o.fallbackLanguage ELSE requested
        fr == [Frame(W, "setLanguage", lang, call) EXCEPT !.requested = requested]
    IN  IF lang = o.currentLanguage
        THEN [W EXCEPT !.calls = Append(@, [fr EXCEPT !.status = "noop"])]
        ELSE loadTranslations(W, fr)

(* preloadTranslations(langs), up to its await Promise.all *)
RECURSIVE preloadTranslations(_, _, _)
preloadTranslations(W, langs, call) ==
    IF langs = <<>> THEN W
    ELSE LET lang == Head(langs)
             o == W.i18n
         IN  IF lang \in o.supportedLanguages /\ lang \notin DOMAIN o.translations
             THEN preloadTranslations(loadTranslations(W, Frame(W, "preload", lang, call)),
                                      Tail(langs), call)
             ELSE preloadTranslations(W, Tail(langs), call)

(* emit(event, data) *)
emit(W, name, previous, current) ==
    [W EXCEPT !.events = Append(@, [name |-> name, previous |-> previous, current |-> current,
                                    translations |-> IF current \in DOMAIN W.i18n.translations
                                                     THEN W.i18n.translations[current]
                                                     ELSE Null])]

(* a store in which a setLanguage superseded by a later call does not switch *)
resume_supersededSkips(W, id) ==
    LET f == W.calls[id]
        o == W.i18n
        superseded == \E j \in DOMAIN W.calls : j > id /\ W.calls[j].kind = "setLanguage"
    IN  IF f.kind = "setLanguage"
        THEN IF f.outcome = "ok"
             THEN IF superseded THEN [W EXCEPT !.calls[id].status = "done"]
                  ELSE emit([W EXCEPT !.i18n.currentLanguage = f.lang,
                                      !.calls[id].status = "done"],
                            "languageChanged", o.currentLanguage, f.lang)
             ELSE [W EXCEPT !.calls[id].status = "failed"]
        ELSE IF f.kind = "init"
        THEN IF f.outcome = "ok"
             THEN emit([W EXCEPT !.calls[id].status = "done"], "ready", Null, o.currentLanguage)
             ELSE IF o.currentLanguage # o.fallbackLanguage
             THEN init([W EXCEPT !.i18n.currentLanguage = o.fallbackLanguage,
                                 !.calls[id].status = "retried"])
             ELSE [W EXCEPT !.calls[id].status = "failed"]
        ELSE [W EXCEPT !.calls[id].status = IF f.outcome = "ok" THEN "done" ELSE "failed"]

(* the continuation of the call frame id, whose awaited load has settled *)
resume(W, id) ==
    LET f == W.calls[id]
        o == W.i18n
    IN  IF f.kind = "setLanguage"
        THEN IF f.outcome = "ok"
             THEN emit([W EXCEPT !.i18n.currentLanguage = f.lang, !.calls[id].status = "done"],
                       "languageChanged", o.currentLanguage, f.lang)
             ELSE [W EXCEPT !.calls[id].status = "failed"]
        ELSE IF f.kind = "init"
        THEN IF f.outcome = "ok"
             THEN emit([W EXCEPT !.calls[id].status = "done"], "ready", Null, o.currentLanguage)
             ELSE IF o.currentLanguage # o.fallbackLanguage
             THEN init([W EXCEPT !.i18n.currentLanguage = o.fallbackLanguage,
                                 !.calls[id].status = "retried"])
             ELSE [W EXCEPT !.calls[id].status = "failed"]
        ELSE [W EXCEPT !.calls[id].status = IF f.outcome = "ok" THEN "done" ELSE "failed"]

(* a store whose failed fetch always rejects *)
fetchTranslations_noFallback(o, lang, net) ==
    IF net = "ok" THEN [state |-> "fulfilled", value |-> lang]
    ELSE [state |-> "rejected", value |-> Null]

(* what the promise of _fetchTranslations(lang) settles to when the fetch ends *)
fetchTranslations(o, lang, net) ==
    IF net = "ok" THEN [state |-> "fulfilled", value |-> lang]
    ELSE IF lang # o.fallbackLanguage /\ o.fallbackLanguage \in DOMAIN o.translations
    THEN [state |-> "fulfilled", value |-> o.translations[o.fallbackLanguage]]
    ELSE [state |-> "rejected", value |-> Null]

(* the calls awaiting promise p, in the order their reactions were registered *)
RECURSIVE waiters(_, _, _)
waiters(cs, p, i) ==
    IF i > Len(cs) THEN <<>>
    ELSE IF cs[i].promise = p /\ cs[i].status = "waiting"
    THEN <<i>> \o waiters(cs, p, i + 1)
    ELSE waiters(cs, p, i + 1)

(* a store whose callers continue as after a success when the load was rejected *)
settle_rejectionLost(W, p, net) ==
    LET lang == W.promises[p].lang
        s == fetchTranslations(W.i18n, lang, net)
        ws == waiters(W.calls, p, 1)
    IN  [W EXCEPT !.promises[p] = [lang |-> lang, state |-> s.state, value |-> s.value],
                  !.i18n.translations = IF s.state = "fulfilled" THEN put(@, lang, s.value) ELSE @,
                  !.i18n.translationPromises = IF s.state = "rejected" THEN remove(@, lang) ELSE @,
                  !.calls = [i \in DOMAIN @ |->
                                IF @[i].promise = p /\ @[i].status = "waiting"
                                THEN [@[i] EXCEPT !.status = "runnable", !.outcome = "ok"]
                                ELSE @[i]],
                  !.queue = @ \o ws]

(* promise p settles: the owning loadTranslations stores the dictionary (or drops
   the promise), and every call awaiting it becomes ready to continue *)
settle(W, p, net) ==
    LET lang == W.promises[p].lang
        s == fetchTranslations(W.i18n, lang, net)
        ws == waiters(W.calls, p, 1)
    IN  [W EXCEPT !.promises[p] = [lang |-> lang, state |-> s.state, value |-> s.value],
                  !.i18n.translations = IF s.state = "fulfilled" THEN put(@, lang, s.value) ELSE @,
                  !.i18n.translationPromises = IF s.state = "rejected" THEN remove(@, lang) ELSE @,
                  !.calls = [i \in DOMAIN @ |->
                                IF @[i].promise = p /\ @[i].status = "waiting"
                                THEN [@[i] EXCEPT !.status = "runnable",
                                                  !.outcome = IF s.state = "fulfilled"
                                                              THEN "ok" ELSE "err"]
                                ELSE @[i]],
                  !.queue = @ \o ws]

(* this.config of FoxTradingApp *)
appSupportedLanguages == <<EN, ES_MX>>

(* preloadLanguages(): preload the supported languages other than the current *)
preloadLanguages(W) ==
    preloadTranslations(W, SelectSeq(appSupportedLanguages,
                                     LAMBDA l : l # W.i18n.currentLanguage), 0)

AppFrame == 0

StoreLocations ==
    {Loc(<<>>, Null, Null, Null), Loc(<<ES_MX>>, Null, Null, Null)}

CallTags == {EN, ES_MX, EN_SG}

PreloadLists == {<<ES_MX>>, <<EN, ES_MX, EN_SG>>}

StoreInit ==
    /\ variant \in {"sg", "p3"}
    /\ config = AppConfig
    /\ location \in StoreLocations
    /\ timezone = "Europe/Paris"
    /\ languages = <<EN_US>>
    /\ storageAccess = "ok"
    /\ storage = <<>>
    /\ now = 0
    /\ last = NoCall
    /\ userChoice = NoChoice
    /\ app = NoApp
    /\ i18n = NoI18n
    /\ promises = <<>>
    /\ calls = <<>>
    /\ queue = <<>>
    /\ inTask = FALSE
    /\ events = <<>>
    /\ translated = NoCall
    /\ lazy = NoLazy

userCalls == Cardinality({calls[i].call : i \in DOMAIN calls} \ {0})

(* a script or an event handler may call the store: in a task of its own, or in
   the task that made the previous call *)
mayCall == app.phase # "new" /\ userCalls < MaxCalls /\ (queue = <<>> \/ inTask)

(* FoxTradingApp.init() up to its await this.i18n.init(): detectLanguage() is
   called without await, so with the async build detection is a Promise and
   detection.language is undefined *)
AppInit ==
    /\ app.phase = "new"
    /\ LET r == detect(DefaultOptions, storage, NoGeo)
           detectionLanguage == IF variant = "sg" THEN Undefined ELSE r.language
           o == I18nConstructor([supportedLanguages |-> config.supportedLanguages,
                                 defaultLanguage |-> detectionLanguage,
                                 fallbackLanguage |-> config.fallbackLanguage])
           W == init([world EXCEPT !.i18n = o])
       IN  /\ storage' = stored(r, storage)
           /\ app' = [phase |-> "starting", isInitialized |-> FALSE, detected |-> r.language,
                      detectionLanguage |-> detectionLanguage,
                      constructedWith |-> o.currentLanguage, build |-> app.build]
           /\ become(W)
           /\ inTask' = (W.queue # <<>>)
    /\ UNCHANGED <<variant, config, location, timezone, languages, storageAccess, now, last,
                   userChoice, translated, lazy>>

SetLanguage(lang) ==
    /\ mayCall
    /\ LET W == setLanguage(world, lang, userCalls + 1)
       IN  become(W) /\ inTask' = (W.queue # <<>>)
    /\ UNCHANGED app
    /\ UNCHANGED detVars
    /\ UNCHANGED <<translated, lazy>>

PreloadTranslations(langs) ==
    /\ mayCall
    /\ LET W == preloadTranslations(world, langs, userCalls + 1)
       IN  become(W) /\ inTask' = (W.queue # <<>>)
    /\ UNCHANGED app
    /\ UNCHANGED detVars
    /\ UNCHANGED <<translated, lazy>>

(* the network answers a fetch: the file arrives, or the request fails *)
FetchSettles(p, net) ==
    /\ queue = <<>>
    /\ p \in DOMAIN promises
    /\ promises[p].state = "pending"
    /\ become(settle(world, p, net))
    /\ inTask' = FALSE
    /\ UNCHANGED app
    /\ UNCHANGED detVars
    /\ UNCHANGED <<translated, lazy>>

(* the next microtask: the continuation of a store call *)
Resume ==
    /\ queue # <<>>
    /\ Head(queue) # AppFrame
    /\ LET id == Head(queue)
           W == resume([world EXCEPT !.queue = Tail(@)], id)
           st == W.calls[id].status
       IN  IF calls[id].kind = "init" /\ st \in {"done", "failed"}
           THEN /\ become([W EXCEPT !.queue = Append(@, AppFrame)])
                /\ app' = [app EXCEPT !.phase = IF st = "done" THEN "initResolved"
                                                ELSE "initRejected"]
           ELSE become(W) /\ UNCHANGED app
    /\ inTask' = FALSE
    /\ UNCHANGED detVars
    /\ UNCHANGED <<translated, lazy>>

(* FoxTradingApp.init() after its await: preloadLanguages() and isInitialized,
   or initializeFallback() from the catch *)
AppContinues ==
    /\ queue # <<>>
    /\ Head(queue) = AppFrame
    /\ LET W == [world EXCEPT !.queue = Tail(@)]
       IN  IF app.phase = "initResolved"
           THEN /\ become(preloadLanguages(W))
                /\ app' = [app EXCEPT !.phase = "ready", !.isInitialized = TRUE]
           ELSE /\ become(W)
                /\ app' = [app EXCEPT !.phase = "fallback", !.isInitialized = TRUE]
    /\ inTask' = FALSE
    /\ UNCHANGED detVars
    /\ UNCHANGED <<translated, lazy>>

StoreNext ==
    \/ AppInit
    \/ \E lang \in CallTags : SetLanguage(lang)
    \/ \E langs \in PreloadLists : PreloadTranslations(langs)
    \/ \E p \in 1..Len(promises), net \in {"ok", "fail"} : FetchSettles(p, net)
    \/ Resume
    \/ AppContinues

SpecStore == StoreInit /\ [][StoreNext]_vars

-----------------------------------------------------------------------------
(* translate, _getNestedProperty and _interpolate of I18n, and translate of   *)
(* LocalizationManager.  A JavaScript value is a record: a string (chars), a *)
(* number (num), an object of a dictionary (the node at path of the          *)
(* dictionary dict), a function (a method found on the prototype chain) or   *)
(* undefined.  A dictionary is the map from the paths of its leaves to their *)
(* strings; keys and strings are sequences of one-character strings.         *)

JsString(cs) == [kind |-> "string", chars |-> cs, num |-> 0, dict |-> <<>>, path |-> <<>>]
JsNumber(n) == [kind |-> "number", chars |-> <<>>, num |-> n, dict |-> <<>>, path |-> <<>>]
JsObject(d, pth) == [kind |-> "object", chars |-> <<>>, num |-> 0, dict |-> d, path |-> pth]
JsFunction == [kind |-> "function", chars |-> <<>>, num |-> 0, dict |-> <<>>, path |-> <<>>]
JsUndefined == [kind |-> "undefined", chars |-> <<>>, num |-> 0, dict |-> <<>>, path |-> <<>>]

(* ToBoolean *)
truthy(v) ==
    CASE v.kind = "undefined" -> FALSE
      [] v.kind = "string" -> v.chars # <<>>
      [] v.kind = "number" -> v.num # 0
      [] OTHER -> TRUE

A == <<"a">>
B == <<"b">>
C == <<"c">>
D == <<"d">>
E == <<"e">>
H == <<"h">>
K == <<"k">>
M == <<"m">>
N == <<"n">>
P == <<"p">>
LENGTH == <<"l", "e", "n", "g", "t", "h">>
TOSTRING == <<"t", "o", "S", "t", "r", "i", "n", "g">>

(* members every object and every primitive inherits from Object.prototype *)
Inherited == {TOSTRING}

Digits == <<"0", "1", "2", "3", "4", "5", "6", "7", "8", "9">>

(* the parsed dictionary files: en.json and es-MX.json *)
EnTree ==
    (<<A, B, C>> :> <<"X">>)
    @@ (<<E>> :> <<"E">>)
    @@ (<<H>> :> <<"H", "i", " ", "{", "{", "n", "}", "}">>)

EsTree ==
    (<<A, B, C>> :> <<"Y">>)
    @@ (<<H>> :> <<"{", "{", " ", "n", " ", "}", "}", "{", "{", "m", "}", "}">>)
    @@ (<<K>> :> <<"{", "{", "{", "n", "}", "}">>)
    @@ (<<P>> :> <<"{", "{", "t", "o", "S", "t", "r", "i", "n", "g", "}", "}">>)

(* the dictionary parsed from the file of tag id; <<>> names the literal {} *)
Dictionary(id) == IF id = EN THEN EnTree ELSE IF id = ES_MX THEN EsTree ELSE <<>>

isPrefix(pth, q) == Len(pth) <= Len(q) /\ SubSeq(q, 1, Len(pth)) = pth

(* the own property reached by pth in dictionary d *)
nodeAt(d, pth) ==
    IF pth \in DOMAIN Dictionary(d) THEN JsString(Dictionary(d)[pth])
    ELSE IF \E q \in DOMAIN Dictionary(d) : isPrefix(pth, q) THEN JsObject(d, pth)
    ELSE JsUndefined

(* current[key]: own properties first, then the prototype chain *)
getProperty(current, key) ==
    CASE current.kind = "object" /\ nodeAt(current.dict, Append(current.path, key)).kind # "undefined"
             -> nodeAt(current.dict, Append(current.path, key))
      [] current.kind = "string" /\ key = LENGTH -> JsNumber(Len(current.chars))
      [] current.kind = "string" /\ \E i \in 1..Len(current.chars) : key = <<Digits[i]>>
             -> JsString(<<current.chars[CHOOSE i \in 1..Len(current.chars) : key = <<Digits[i]>>]>>)
      [] key \in Inherited -> JsFunction
      [] OTHER -> JsUndefined

(* path.split('.').reduce(...) of _getNestedProperty *)
RECURSIVE reduceNested(_, _)
reduceNested(current, segs) ==
    IF segs = <<>> THEN current
    ELSE reduceNested(IF truthy(current) /\ getProperty(current, Head(segs)).kind # "undefined"
                      THEN getProperty(current, Head(segs)) ELSE JsUndefined,
                      Tail(segs))

getNestedProperty(obj, pth) == reduceNested(obj, split(pth, "."))

(* String.prototype.trim *)
RECURSIVE trim(_)
trim(cs) ==
    IF cs = <<>> THEN cs
    ELSE IF Head(cs) = " " THEN trim(Tail(cs))
    ELSE IF cs[Len(cs)] = " " THEN trim(SubSeq(cs, 1, Len(cs) - 1))
    ELSE cs

(* String(f) of a built-in function *)
NativeCode == <<"<native code>">>

(* params[trimmedKey]: own properties first, then the prototype chain *)
paramValue(params, name) ==
    IF name \in DOMAIN params THEN JsString(params[name])
    ELSE IF name \in Inherited THEN JsFunction
    ELSE JsUndefined

(* the index of the first "}" of cs at or after i, 0 when there is none *)
firstBrace(cs, i) ==
    IF \E j \in i..Len(cs) : cs[j] = "}"
    THEN CHOOSE j \in i..Len(cs) : cs[j] = "}" /\ \A k \in i..(j - 1) : cs[k] # "}"
    ELSE 0

(* str.replace(/\{\{([^}]+)\}\}/g, replacer), scanning from index i *)
RECURSIVE replaceAll(_, _, _)
replaceAll(cs, i, params) ==
    IF i > Len(cs) THEN <<>>
    ELSE LET j == firstBrace(cs, i + 2)
             matches == /\ i + 1 <= Len(cs) /\ cs[i] = "{" /\ cs[i + 1] = "{"
                        /\ j > i + 2 /\ j + 1 <= Len(cs) /\ cs[j + 1] = "}"
         IN  IF matches
             THEN LET v == paramValue(params, trim(SubSeq(cs, i + 2, j - 1)))
                      text == CASE v.kind = "string" -> v.chars
                                [] v.kind = "function" -> NativeCode
                                [] OTHER -> SubSeq(cs, i, j + 1)
                  IN  text \o replaceAll(cs, j + 2, params)
             ELSE <<cs[i]>> \o replaceAll(cs, i + 1, params)

interpolate(str, params) == replaceAll(str, 1, params)

(* this.translations[lang] as a value: the cached dictionary, or undefined *)
cachedDictionary(o, lang) ==
    IF lang \in DOMAIN o.translations THEN JsObject(o.translations[lang], <<>>) ELSE JsUndefined

(* I18n.translate(key, params, lang) *)
translate(o, key, params, lang) ==
    LET targetLang == IF Truthy(lang) THEN lang ELSE o.currentLanguage
        translations == IF truthy(cachedDictionary(o, targetLang))
                        THEN cachedDictionary(o, targetLang)
                        ELSE IF truthy(cachedDictionary(o, o.fallbackLanguage))
                        THEN cachedDictionary(o, o.fallbackLanguage)
                        ELSE JsObject(<<>>, <<>>)
        translation == getNestedProperty(translations, key)
    IN  IF translation.kind = "undefined" THEN JsString(key)
        ELSE IF translation.kind = "string" /\ DOMAIN params # {}
        THEN JsString(interpolate(translation.chars, params))
        ELSE translation

(* LocalizationManager.getNestedProperty: key.split('.').reduce((o, k) => o && o[k], obj) *)
RECURSIVE reduceNested_lm(_, _)
reduceNested_lm(current, segs) ==
    IF segs = <<>> THEN current
    ELSE reduceNested_lm(IF truthy(current) THEN getProperty(current, Head(segs)) ELSE current,
                         Tail(segs))

(* LocalizationManager.translate(key) *)
translate_lm(o, key) ==
    LET found == reduceNested_lm(cachedDictionary(o, o.currentLanguage), split(key, "."))
    IN  IF truthy(found) THEN found ELSE JsString(key)

RECURSIVE join(_)
join(segs) ==
    IF Len(segs) = 1 THEN Head(segs) ELSE Head(segs) \o <<".">> \o join(Tail(segs))

(* the keys asked for: a leaf, a missing last segment, a walk through a leaf,
   a property of the leaf string, an inner node, an inherited member, a key of
   en.json only, and the strings with placeholders *)
Keys ==
    {join(<<A, B, C>>), join(<<A, B, D>>), join(<<A, B, C, D>>), join(<<A, B, C, LENGTH>>),
     join(<<A, B>>), join(<<TOSTRING>>), join(<<E>>), join(<<H>>), join(<<K>>), join(<<P>>)}

ANA == <<"A", "n", "a">>

ParamSets == {<<>>, N :> ANA, M :> <<"Z">>}

LangArguments == {Null, EN, ES_MX}

(* the dictionaries a store of FoxTradingApp can hold: none, en only, es-MX
   only, both, and es-MX answered by the content of en.json *)
CachedSets ==
    {<<>>, EN :> EN, ES_MX :> ES_MX, (EN :> EN) @@ (ES_MX :> ES_MX), (EN :> EN) @@ (ES_MX :> EN)}

TranslateInit ==
    /\ variant = "p3"
    /\ config = AppConfig
    /\ location = Loc(<<>>, Null, Null, Null)
    /\ timezone = "Europe/Paris"
    /\ languages = <<EN_US>>
    /\ storageAccess = "ok"
    /\ storage = <<>>
    /\ now = 0
    /\ last = NoCall
    /\ userChoice = NoChoice
    /\ app = NoApp
    /\ \E cur \in {EN, ES_MX}, cached \in CachedSets :
          i18n = [I18nConstructor([supportedLanguages |-> config.supportedLanguages,
                                   defaultLanguage |-> cur,
                                   fallbackLanguage |-> config.fallbackLanguage])
                  EXCEPT !.translations = cached]
    /\ promises = <<>>
    /\ calls = <<>>
    /\ queue = <<>>
    /\ inTask = FALSE
    /\ events = <<>>
    /\ translated = NoCall
    /\ lazy = NoLazy

Translate(key, params, lang) ==
    /\ translated' = [kind |-> "translate", key |-> key, params |-> params, lang |-> lang,
                      result |-> translate(i18n, key, params, lang)]
    /\ UNCHANGED detVars
    /\ UNCHANGED <<app, i18n, promises, calls, queue, inTask, events, lazy>>

TranslateLm(key) ==
    /\ translated' = [kind |-> "translate_lm", key |-> key, params |-> <<>>, lang |-> Null,
                      result |-> translate_lm(i18n, key)]
    /\ UNCHANGED detVars
    /\ UNCHANGED <<app, i18n, promises, calls, queue, inTask, events, lazy>>

TranslateNext ==
    \/ \E key \in Keys, params \in ParamSets, lang \in LangArguments : Translate(key, params, lang)
    \/ \E key \in Keys : TranslateLm(key)

SpecTranslate == TranslateInit /\ [][TranslateNext]_vars

-----------------------------------------------------------------------------
(* Properties of the store and of the application start *)

initCompleted == \E i \in DOMAIN events : events[i].name = "ready"

(* C2: in every state after I18n.init() has completed successfully, and after
   any later setLanguage / preloadTranslations calls, the store's active
   language is a member of supportedLanguages, whatever tag the store was
   constructed with *)
C2_ActiveLanguageSupported ==
    initCompleted => i18n.currentLanguage \in i18n.supportedLanguages

(* C3: at FoxTradingApp.init the tag the store is constructed with, and whose
   dictionary it loads first, is the language of the result that
   detectLanguage() produces for the environment *)
C3_StoreStartsWithDetectedLanguage ==
    app.phase # "new" =>
        /\ app.constructedWith = app.detected
        /\ calls[1].kind = "init" /\ calls[1].lang = app.detected
        /\ promises[1].lang = app.detected

languageChangedTo(lang, since) ==
    {e \in DOMAIN events : /\ e > since
                           /\ events[e].name = "languageChanged"
                           /\ events[e].current = lang}

fetchesOf(lang, from) ==
    {p \in DOMAIN promises : p >= from /\ promises[p].lang = lang}

(* calls i and i + 1 are the two latest calls on the store, both
   setLanguage("es-MX") made while the active language was another one and the
   es-MX dictionary was not cached, the second made before the first completed;
   both have completed *)
overlappingPair(i) ==
    /\ i + 1 = Len(calls)
    /\ \A k \in {i, i + 1} : /\ calls[k].kind = "setLanguage"
                             /\ calls[k].lang = ES_MX
                             /\ calls[k].promise # 0
                             /\ calls[k].status = "done"
    /\ i \in calls[i + 1].pendingBefore

(* C10: two setLanguage("es-MX") calls issued one after the other before either
   completes result in exactly one fetch of the es-MX dictionary and exactly one
   languageChanged notification with current = "es-MX" *)
C10_OneFetchOneNotification ==
    \A i \in DOMAIN calls :
        overlappingPair(i) =>
            /\ Cardinality(fetchesOf(ES_MX, calls[i].promise)) = 1
            /\ Cardinality(languageChangedTo(ES_MX, calls[i].eventsBefore)) = 1

(* the continuation of call id runs in this step and the call completes *)
finishes(id) == calls[id].status = "runnable" /\ calls'[id].status = "done"

(* calls i and j are setLanguage calls for distinct tags, one made while the
   other was in flight; neither tag was active when its call was made *)
overlappingDistinct(i, j) ==
    /\ calls[i].kind = "setLanguage" /\ calls[j].kind = "setLanguage"
    /\ calls[i].lang # calls[j].lang
    /\ calls[i].status # "noop" /\ calls[j].status # "noop"
    /\ (i \in calls[j].pendingBefore \/ j \in calls[i].pendingBefore)

(* C11: when setLanguage(A) and setLanguage(B) overlap, at the step where the
   second of them completes both dictionaries are cached and the active
   language becomes the tag of that call, the one whose load finished last,
   whichever call was started last *)
C11_LastFinishedWins ==
    [][\A i \in DOMAIN calls : \A j \in DOMAIN calls :
          (overlappingDistinct(i, j) /\ calls[i].status = "done" /\ finishes(j))
              => /\ i18n'.currentLanguage = calls[j].lang
                 /\ {calls[i].lang, calls[j].lang} \subseteq DOMAIN i18n'.translations]_vars

(* the call started first finished last and its tag is the active one *)
C11_Witness ==
    \E i \in DOMAIN calls : \E j \in DOMAIN calls :
        /\ i < j /\ overlappingDistinct(i, j)
        /\ calls[i].status = "done" /\ calls[j].status = "done"
        /\ Len(events) >= 2
        /\ events[Len(events)].name = "languageChanged"
        /\ events[Len(events)].current = calls[i].lang
        /\ events[Len(events)].previous = calls[j].lang
        /\ i18n.currentLanguage = calls[i].lang

(* the load awaited by call j is rejected in this step: the fetch failed and no
   fallback dictionary could be substituted *)
loadRejected(j) ==
    /\ calls[j].status = "waiting"
    /\ promises[calls[j].promise].state = "pending"
    /\ promises'[calls[j].promise].state = "rejected"

(* C12: when the load of setLanguage(t) fails and no fallback dictionary can be
   substituted, the call rejects to its caller, the active language stays the
   previous tag and no languageChanged notification is emitted *)
C12_FailedLoadKeepsLanguage ==
    [][\A j \in DOMAIN calls :
          calls[j].kind = "setLanguage" =>
              /\ loadRejected(j) => /\ calls'[j].outcome = "err"
                                    /\ i18n'.currentLanguage = i18n.currentLanguage
                                    /\ calls[j].lang \notin DOMAIN i18n'.translations
                                    /\ events' = events
              /\ (calls[j].status = "runnable" /\ calls[j].outcome = "err"
                  /\ calls'[j].status # "runnable")
                     => /\ calls'[j].status = "failed"
                        /\ i18n'.currentLanguage = i18n.currentLanguage
                        /\ events' = events]_vars

(* a setLanguage call has rejected and the store still shows the previous tag *)
C12_Witness ==
    \E j \in DOMAIN calls :
        /\ calls[j].kind = "setLanguage" /\ calls[j].status = "failed"
        /\ promises[calls[j].promise].state = "rejected"
        /\ initCompleted
        /\ i18n.currentLanguage # calls[j].lang
        /\ \A e \in DOMAIN events : events[e].name = "languageChanged" => events[e].current # calls[j].lang

(* a setLanguage call is made in this step for the tag that is active *)
callsActiveLanguage ==
    /\ Len(calls') = Len(calls) + 1
    /\ calls'[Len(calls')].kind = "setLanguage"
    /\ calls'[Len(calls')].lang = i18n.currentLanguage

loadsSucceed ==
    \A p \in DOMAIN promises :
        promises[p].state = "pending" \/ promises[p].value = promises[p].lang

(* C17: while the loads succeed, the dictionary of each tag is fetched at most
   once, whatever store calls are made: switching away from a tag and back to
   it reuses the cached dictionary *)
C17_FetchedAtMostOnce ==
    loadsSucceed =>
        \A p \in DOMAIN promises : \A q \in DOMAIN promises :
            promises[p].lang = promises[q].lang => p = q

(* the store switched away from es-MX and back, the way back without a fetch *)
C17_Witness ==
    /\ loadsSucceed
    /\ \E e1 \in DOMAIN events : \E e2 \in DOMAIN events :
          /\ e1 < e2
          /\ events[e1].name = "languageChanged" /\ events[e1].previous = ES_MX
          /\ events[e2].name = "languageChanged" /\ events[e2].current = ES_MX
    /\ \E j \in DOMAIN calls :
          /\ calls[j].kind = "setLanguage" /\ calls[j].lang = ES_MX
          /\ calls[j].status = "done" /\ calls[j].promise = 0
    /\ Cardinality(fetchesOf(ES_MX, 1)) = 1

(* the fetch behind promise p ends in this step *)
fetchEnds(p) == promises[p].state = "pending" /\ promises'[p].state # "pending"

(* C18: when the fetch of tag t ends, t is not the fallback language and the
   fallback dictionary is cached, loadTranslations(t) does not reject: it
   resolves with t's own file or, the fetch having failed, with the content of
   the fallback dictionary, and its callers continue *)
C18_FallbackSubstituted ==
    [][\A p \in DOMAIN promises :
          (/\ fetchEnds(p)
           /\ promises[p].lang # i18n.fallbackLanguage
           /\ i18n.fallbackLanguage \in DOMAIN i18n.translations)
              => /\ promises'[p].state = "fulfilled"
                 /\ promises'[p].value \in {promises[p].lang,
                                            i18n.translations[i18n.fallbackLanguage]}
                 /\ \A j \in DOMAIN calls :
                       (calls[j].promise = p /\ calls[j].status = "waiting")
                           => calls'[j].outcome = "ok"]_vars

(* the fetch of es-MX failed with en cached: the load resolved with en's content *)
C18_Witness ==
    \E p \in DOMAIN promises :
        /\ promises[p].lang = ES_MX /\ promises[p].state = "fulfilled"
        /\ promises[p].value = EN
        /\ i18n.fallbackLanguage = EN
        /\ EN \in DOMAIN i18n.translations /\ i18n.translations[EN] = EN
        /\ \E j \in DOMAIN calls : calls[j].promise = p /\ calls[j].outcome = "ok"

(* call j is setLanguage(u) for a tag u outside supportedLanguages *)
unsupportedRequest(j) ==
    calls[j].kind = "setLanguage" /\ calls[j].requested \notin i18n.supportedLanguages

(* C19: setLanguage(u) with u unsupported proceeds as setLanguage(fallbackLanguage):
   it loads the fallback language (or does nothing when that is active), fails
   only when that load is rejected, makes the fallback language the active
   one when it completes, and u is never announced as the active language *)
C19_UnsupportedCoerced ==
    \A j \in DOMAIN calls :
        unsupportedRequest(j) =>
            /\ calls[j].lang = i18n.fallbackLanguage
            /\ calls[j].status = "failed" => promises[calls[j].promise].state = "rejected"
            /\ calls[j].status = "done"
                  => \E e \in languageChangedTo(i18n.fallbackLanguage, calls[j].eventsBefore) :
                        events[e].translations # Null
            /\ \A e \in DOMAIN events :
                  events[e].name = "languageChanged" => events[e].current # calls[j].requested

(* setLanguage("en-SG") switched the store from es-MX to en *)
C19_Witness ==
    \E j \in DOMAIN calls :
        /\ unsupportedRequest(j) /\ calls[j].requested = EN_SG /\ calls[j].status = "done"
        /\ i18n.currentLanguage = EN
        /\ events[Len(events)].name = "languageChanged"
        /\ events[Len(events)].previous = ES_MX /\ events[Len(events)].current = EN

(* the loads that the preloadTranslations call number c started *)
preloadsOf(c) == {j \in DOMAIN calls : calls[j].kind = "preload" /\ calls[j].call = c}

(* await Promise.all(promises) of preloadTranslations call c: rejected as soon as
   one of its loads is rejected, fulfilled when all are fulfilled *)
preloadOutcome(c) ==
    IF \E j \in preloadsOf(c) : calls[j].status = "failed" THEN "rejected"
    ELSE IF \A j \in preloadsOf(c) : calls[j].status = "done" THEN "fulfilled"
    ELSE "pending"

(* C20: preloadTranslations(tags) is best-effort per tag: when the load of one
   requested tag fails the call does not reject, and every other requested tag
   is loaded and cached *)
C20_PreloadBestEffort ==
    \A c \in 1..MaxCalls :
        /\ preloadOutcome(c) # "rejected"
        /\ \A j \in preloadsOf(c) :
              calls[j].status = "done" => calls[j].lang \in DOMAIN i18n.translations

-----------------------------------------------------------------------------
(* Properties of translate *)

(* the leaf string that the dot-path key names in the dictionary file of tag id *)
hasLeaf(id, key) == split(key, ".") \in DOMAIN Dictionary(id)
leafOf(id, key) == Dictionary(id)[split(key, ".")]

(* the dot-path key names a node of the dictionary: a leaf or an inner node *)
hasNode(id, key) == \E q \in DOMAIN Dictionary(id) : isPrefix(split(key, "."), q)

targetOf(call) == IF Truthy(call.lang) THEN call.lang ELSE i18n.currentLanguage

loaded(lang) == lang \in DOMAIN i18n.translations

(* C13: a key absent from the loaded dictionary of the target language and
   present in the loaded fallback dictionary is answered with the fallback
   dictionary's string; the raw key is returned only when both lack it *)
C13_FallbackPerKey ==
    (/\ translated.kind = "translate" /\ translated.params = <<>>
     /\ loaded(targetOf(translated)) /\ loaded(i18n.fallbackLanguage)
     /\ ~hasNode(i18n.translations[targetOf(translated)], translated.key)
     /\ hasLeaf(i18n.translations[i18n.fallbackLanguage], translated.key))
        => translated.result =
               JsString(leafOf(i18n.translations[i18n.fallbackLanguage], translated.key))

(* the dictionary file a translate call reads: the target's, else the fallback's
   (I18n only), else none *)
dictionaryRead(call) ==
    IF call.kind = "translate_lm"
    THEN IF loaded(i18n.currentLanguage) THEN i18n.translations[i18n.currentLanguage] ELSE <<>>
    ELSE IF loaded(targetOf(call)) THEN i18n.translations[targetOf(call)]
    ELSE IF loaded(i18n.fallbackLanguage) THEN i18n.translations[i18n.fallbackLanguage]
    ELSE <<>>

(* C14: translate returns the leaf string at the dot path when the path exists,
   and the key itself when a segment of the path is missing, also when the walk
   passes through a leaf or the dictionary is not loaded *)
C14_DotPathOrKey ==
    (translated.kind \in {"translate", "translate_lm"} /\ translated.params = <<>>)
        => /\ hasLeaf(dictionaryRead(translated), translated.key)
                 => translated.result =
                        JsString(leafOf(dictionaryRead(translated), translated.key))
           /\ ~hasNode(dictionaryRead(translated), translated.key)
                 => translated.result = JsString(translated.key)

(* cs holds sub as a substring *)
contains(cs, sub) ==
    \E i \in 1..(Len(cs) - Len(sub) + 1) : SubSeq(cs, i, i + Len(sub) - 1) = sub

placeholder(name) == <<"{", "{">> \o name \o <<"}", "}">>

(* C15: translate replaces each {{name}} whose name is a key of params by the
   parameter's value and leaves the other placeholders verbatim: the string is
   unchanged when params is empty or when no parameter name occurs in it, and
   no {{name}} of a given parameter is left in the result *)
C15_Interpolation ==
    (/\ translated.kind = "translate"
     /\ hasLeaf(dictionaryRead(translated), translated.key))
        => LET str == leafOf(dictionaryRead(translated), translated.key)
               out == translated.result
           IN  /\ out.kind = "string"
               /\ (\A name \in DOMAIN translated.params : ~contains(str, name))
                     => out.chars = str
               /\ \A name \in DOMAIN translated.params :
                     contains(str, placeholder(name)) => ~contains(out.chars, placeholder(name))

-----------------------------------------------------------------------------
(* _detectFromBrowser as a function of the supported languages and of the    *)
(* browser's ordered language list                                           *)

(* a caller's own options: base tags only *)
BaseTagConfig == [supportedLanguages |-> {EN, ES}, defaultLanguage |-> EN,
                  fallbackLanguage |-> EN]

BrowserConfigs == {SgConfig, AppConfig, BaseTagConfig}

BrowserTags == {EN_US, ES_ES_U, FR_FR, Null}

MaxList == 3

RECURSIVE listsUpTo(_)
listsUpTo(n) ==
    IF n = 0 THEN {<<>>}
    ELSE LET shorter == listsUpTo(n - 1)
         IN  shorter \cup {Append(l, t) : l \in {s \in shorter : Len(s) = n - 1},
                                          t \in BrowserTags}

BrowserInit ==
    /\ variant \in {"sg", "p3"}
    /\ config \in BrowserConfigs
    /\ location = Loc(<<>>, Null, Null, Null)
    /\ timezone = "Europe/Paris"
    /\ languages \in listsUpTo(MaxList)
    /\ storageAccess = "ok"
    /\ storage = <<>>
    /\ now = 0
    /\ last = NoCall
    /\ userChoice = NoChoice
    /\ app = NoApp
    /\ i18n = NoI18n
    /\ promises = <<>>
    /\ calls = <<>>
    /\ queue = <<>>
    /\ inTask = FALSE
    /\ events = <<>>
    /\ translated = NoCall
    /\ lazy = NoLazy

(* this.detector._detectFromBrowser() of the loaded build *)
DetectFromBrowser ==
    /\ last' = [kind |-> "browser",
                result |-> IF variant = "sg" THEN detectFromBrowser(config, languages)
                           ELSE detectFromBrowser_p3(config, languages)]
    /\ UNCHANGED <<variant, config, location, timezone, languages, storageAccess, storage,
                   now, userChoice>>
    /\ UNCHANGED storeVars

SpecBrowser == BrowserInit /\ [][DetectFromBrowser]_vars

(* the loaded build's normalisation of entry i of the browser list *)
normalizedAt(i) ==
    IF variant = "sg" THEN normalizeBrowserLanguage(languages[i])
    ELSE normalizeBrowserLanguage_p3(languages[i])

exactMatches == {i \in DOMAIN languages : normalizedAt(i).full \in config.supportedLanguages}
baseMatches == {i \in DOMAIN languages : normalizedAt(i).base \in config.supportedLanguages}

earliest(S) == CHOOSE i \in S : \A j \in S : i <= j

(* C21: when some entry of the browser list has an exact supported-tag match the
   detected language is the exact match of the earliest such entry; otherwise
   it is the base-language match of the earliest entry that has one *)
C21_FirstEntryWins ==
    last.kind = "browser"
        => IF exactMatches # {}
           THEN /\ last.result.detected
                /\ last.result.language = normalizedAt(earliest(exactMatches)).full
           ELSE IF baseMatches # {}
           THEN /\ last.result.detected
                /\ last.result.language = normalizedAt(earliest(baseMatches)).base
           ELSE ~last.result.detected

-----------------------------------------------------------------------------
(* Further properties of the detector *)

(* the URL carries the tag t in its query (lang, language or locale) and no
   supported tag as its leading path segment *)
queryCarries(t) ==
    /\ ~location.throws
    /\ langParam(location) = t
    /\ ~(Len(location.segments) > 0 /\ location.segments[1] \in config.supportedLanguages)

(* C22: for every supported tag t, a URL whose query parameter lang, language or
   locale equals t gives a detected URL signal with language t, and the
   detection returns t *)
C22_QueryTagDetected ==
    \A t \in config.supportedLanguages :
        (last.kind = "detect" /\ last.opts.checkURL /\ queryCarries(t))
            => /\ urlSignal.detected
               /\ urlSignal.language = t
               /\ last.result.language = t

(* the names a result's method field may take: one per source *)
MethodNames ==
    {"url", "path", "query", "stored", "storage", "timezone", "browser", "geolocation",
     "default", "fallback", "error_fallback"}

(* C25: the method field of every detection result names the source that
   determined the language; it is never undefined, whichever source wins *)
C25_MethodNamesSource ==
    Detected => /\ last.result.method # Absent
                /\ last.result.method \in MethodNames

-----------------------------------------------------------------------------
(* Further properties of the store *)

(* the notifications delivered in this step *)
delivered == {e \in DOMAIN events' : e > Len(events)}

(* C23: every languageChanged notification describes a real switch: when its
   listeners run the active language is the event's current tag, that tag's
   dictionary is cached, and the event's previous tag differs from its current *)
C23_NotificationIsRealSwitch ==
    [][\A e \in delivered :
          events'[e].name = "languageChanged"
              => /\ i18n'.currentLanguage = events'[e].current
                 /\ events'[e].current \in DOMAIN i18n'.translations
                 /\ events'[e].previous # events'[e].current]_vars

(* the load attempts of I18n.init(): its first call and its recursive calls *)
initAttempts == {j \in DOMAIN calls : calls[j].kind = "init"}

readyEvents == {e \in DOMAIN events : events[e].name = "ready"}

(* C24: I18n.init() makes at most two dictionary load attempts (the initial tag,
   then the fallback tag once); when it ends Ready exactly one ready
   notification was emitted, carrying the tag that is active when it is
   delivered and whose dictionary is cached; it rejects only when the fallback
   language's own load failed *)
C24_InitTwoAttempts ==
    [][/\ Cardinality(initAttempts') <= 2
       /\ Cardinality(readyEvents') <= 1
       /\ \A e \in delivered :
             events'[e].name = "ready"
                 => /\ events'[e].current = i18n'.currentLanguage
                    /\ events'[e].current \in DOMAIN i18n'.translations
       /\ \A j \in initAttempts' :
             /\ calls'[j].status = "done" => Cardinality(readyEvents') = 1
             /\ calls'[j].status = "failed"
                   => /\ calls'[j].lang = i18n'.fallbackLanguage
                      /\ readyEvents' = {}]_vars

(* the load behind promise p failed and was satisfied with the fallback dictionary *)
substituted(p) ==
    /\ promises[p].state = "fulfilled"
    /\ promises[p].value # promises[p].lang

(* call j asks for the tag of promise p and was made after the loadTranslations
   that owned p had returned *)
loadsAgainAfter(j, p) ==
    /\ calls[j].lang = promises[p].lang
    /\ calls[j].status # "noop"
    /\ \E k \in DOMAIN calls : /\ k < j
                               /\ calls[k].owner /\ calls[k].promise = p
                               /\ k \notin calls[j].pendingBefore

(* C28: a load satisfied by fallback substitution is not recorded as the failed
   tag's own dictionary: a later loadTranslations(t) or setLanguage(t) issues a
   new fetch for t's resource *)
C28_SubstitutionNotCached ==
    \A p \in DOMAIN promises, j \in DOMAIN calls :
        (substituted(p) /\ loadsAgainAfter(j, p)) => calls[j].promise > p

-----------------------------------------------------------------------------
(* The store with clearCache() among its calls *)

(* clearCache(); the call is recorded in calls as a call that has returned *)
clearCache(W, call) ==
    [W EXCEPT !.i18n.translations = <<>>,
              !.i18n.translationPromises = <<>>,
              !.calls = Append(@, [Frame(W, "clearCache", Null, call) EXCEPT !.status = "done"])]

ClearCache ==
    /\ mayCall
    /\ become(clearCache(world, userCalls + 1))
    /\ inTask' = (queue # <<>>)
    /\ UNCHANGED app
    /\ UNCHANGED detVars
    /\ UNCHANGED <<translated, lazy>>

CacheNext ==
    \/ StoreNext
    \/ ClearCache

SpecCache == StoreInit /\ [][CacheNext]_vars

(* C26: in every state after a successful init, through any sequence of
   setLanguage, preloadTranslations and clearCache calls, a dictionary is
   cached for the active language *)
C26_ActiveLanguageCached ==
    initCompleted => i18n.currentLanguage \in DOMAIN i18n.translations

-----------------------------------------------------------------------------
(* FoxTradingApp.changeLanguage: the language selectors and the dropdown      *)
(* (assets/js/modules/app.js and its other build, src/unnamed/part_005)       *)

(* the codes the click handler of language-dropdown.js passes *)
DropdownCodes == {EN_SG, ES_MX}

(* the codes changeLanguage is called with: the dropdown's, and the values of
   the selector options, which are the configured languages *)
ChangeCodes == DropdownCodes \cup {appSupportedLanguages[i] : i \in DOMAIN appSupportedLanguages}

AppBuilds == {"app.js", "part_005"}

AppStartInit ==
    /\ variant \in {"sg", "p3"}
    /\ config = AppConfig
    /\ location \in StoreLocations
    /\ timezone = "Europe/Paris"
    /\ languages = <<EN_US>>
    /\ storageAccess = "ok"
    /\ storage = <<>>
    /\ now = 0
    /\ last = NoCall
    /\ userChoice = NoChoice
    /\ app \in {[NoApp EXCEPT !.build = b] : b \in AppBuilds}
    /\ i18n = NoI18n
    /\ promises = <<>>
    /\ calls = <<>>
    /\ queue = <<>>
    /\ inTask = FALSE
    /\ events = <<>>
    /\ translated = NoCall
    /\ lazy = NoLazy

(* handleLanguageChange returns before it touches anything: the guards of
   part_005 (not initialized, or a language outside config.supportedLanguages) *)
changeSkipped(t) ==
    /\ app.build = "part_005"
    /\ \/ ~app.isInitialized
       \/ \A i \in DOMAIN appSupportedLanguages : appSupportedLanguages[i] # t

(* this.detector.setLanguagePreference(newLanguage) throws; the catch of
   handleLanguageChange reports the error and setLanguage is never called *)
preferenceThrows(t) == t \notin config.supportedLanguages

(* changeLanguage(t) = handleLanguageChange(t, 'api'), up to its await: the
   preference is stored first, then i18n.setLanguage(t) is called; a rejection
   of setLanguage is caught and reported, nothing is undone *)
ChangeLanguage(t) ==
    /\ mayCall
    /\ IF changeSkipped(t) \/ preferenceThrows(t)
       THEN /\ last' = [kind |-> "changeLanguage", language |-> t, frame |-> 0,
                        before |-> i18n.currentLanguage, initialized |-> app.isInitialized]
            /\ UNCHANGED <<storage, userChoice, i18n, promises, calls, queue, events, inTask>>
       ELSE LET r == [language |-> t, method |-> "manual", priority |-> PriorityManual]
                W == setLanguage(world, t, userCalls + 1)
            IN  /\ storage' = IF variant = "sg"
                              THEN storeDetection(storageAccess, storage, r, TRUE, now)
                              ELSE storeDetection_p3(storageAccess, storage, r, now)
                /\ userChoice' = IF written
                                 THEN [active |-> TRUE, language |-> t, madeAt |-> now,
                                       confirmedAt |-> now]
                                 ELSE NoChoice
                /\ last' = [kind |-> "changeLanguage", language |-> t, frame |-> Len(calls) + 1,
                            before |-> i18n.currentLanguage, initialized |-> app.isInitialized]
                /\ become(W)
                /\ inTask' = (W.queue # <<>>)
    /\ UNCHANGED <<variant, config, location, timezone, languages, storageAccess, now>>
    /\ UNCHANGED <<app, translated, lazy>>

AppNext ==
    \/ AppInit
    \/ \E t \in ChangeCodes : ChangeLanguage(t)
    \/ \E p \in 1..Len(promises), net \in {"ok", "fail"} : FetchSettles(p, net)
    \/ Resume
    \/ AppContinues

SpecApp == AppStartInit /\ [][AppNext]_vars

(* the latest changeLanguage call reached setLanguage and its load was rejected *)
changeFailed ==
    /\ last.kind = "changeLanguage"
    /\ last.frame # 0
    /\ calls[last.frame].status = "failed"

(* C27: when a language change requested through changeLanguage(t) fails because
   t's dictionary cannot be loaded, the persisted language preference equals
   the language that remains active: it is not left at t *)
C27_FailedChangeKeepsPreference ==
    changeFailed
        => /\ hasItem(storage, "language")
           /\ storage.language = i18n.currentLanguage
           /\ storage.language # last.language

(* no init and no other language change was under way when call f was made *)
undisturbed(f) ==
    \A k \in calls[f].pendingBefore : calls[k].kind \notin {"init", "setLanguage"}

(* C29: every code the dropdown passes to changeLanguage is one of the
   application's supportedLanguages, so choosing an option (in the initialized
   application) reaches setLanguage and, once the dictionary has loaded, the
   active language is the option's language *)
C29_DropdownCodesSupported ==
    (last.kind = "changeLanguage" /\ last.language \in DropdownCodes /\ last.initialized)
        => /\ \E i \in DOMAIN appSupportedLanguages : appSupportedLanguages[i] = last.language
           /\ last.frame # 0
           /\ IF last.frame = 0 THEN FALSE
              ELSE (calls[last.frame].status \in {"done", "noop"} /\ undisturbed(last.frame))
                       => i18n.currentLanguage = last.language

-----------------------------------------------------------------------------
(* LazyLoader, assets/js/modules/lazy-loader.js                               *)
(*                                                                           *)
(* The page has a hero section and MaxImages images.  An image lies in the   *)
(* hero section (or has loading="eager"), in one of the critical sections    *)
(* (#about-section, #service-section), among the first three images of       *)
(* #project-section, or in another section; each image outside the hero      *)
(* stands for its section as well.  Intersection ratios are tenths.  An      *)
(* IntersectionObserver queues an entry for a target when it starts to       *)
(* observe it and whenever the target crosses a threshold, and delivers the  *)
(* queued entries to its callback in a task of their own.                    *)

MaxImages == 1
MaxFetch == 2

Places == {"hero", "critical", "project", "other"}

(* intersectionRatio of the hero section: hidden, visible below the 50%
   threshold, visible above it *)
HeroRatios == {0, 3, 10}

(* heroThreshold: 0.5 *)
HeroThreshold == 5

(* where an image is: outside the viewport, or intersecting the root (and its
   section with it) *)
Views == {"no", "image"}

Image(place, loadable) ==
    [place |-> place, loadable |-> loadable, src |-> "original", replaced |-> FALSE,
     lazyLoaded |-> FALSE, error |-> FALSE, view |-> "no",
     observed |-> FALSE, entries |-> {},
     sectionObserved |-> FALSE, sectionEntries |-> {}, sectionLoaded |-> FALSE,
     fetching |-> 0]

(* the state after new LazyLoader(): nothing identified, nothing observed *)
LazyStart ==
    /\ variant = "sg"
    /\ config = AppConfig
    /\ location = Loc(<<>>, Null, Null, Null)
    /\ timezone = "Europe/Paris"
    /\ languages = <<EN_US>>
    /\ storageAccess = "ok"
    /\ storage = <<>>
    /\ now = 0
    /\ last = NoCall
    /\ userChoice = NoChoice
    /\ app = NoApp
    /\ i18n = NoI18n
    /\ promises = <<>>
    /\ calls = <<>>
    /\ queue = <<>>
    /\ inTask = FALSE
    /\ events = <<>>
    /\ translated = NoCall
    /\ \E places \in [1..MaxImages -> Places], loadable \in [1..MaxImages -> BOOLEAN],
          r \in HeroRatios :
          lazy = [initialized |-> FALSE, isHeroVisible |-> FALSE, heroRatio |-> r,
                  heroEntries |-> {},
                  img |-> [i \in 1..MaxImages |-> Image(places[i], loadable[i])]]

(* the entry an observer queues for a target in view or out of view *)
entryFor(inView) == IF inView THEN "in" ELSE "out"

(* identifyLazyContent, for one image: outside the hero section the src is
   kept in dataset.originalSrc and replaced by the placeholder *)
identifyLazyContent(im) ==
    IF im.place # "hero" /\ ~im.replaced
    THEN [im EXCEPT !.replaced = TRUE, !.src = "placeholder"]
    ELSE im

(* loadImage(img): a new Image() starts to load the original source *)
loadImage(im) ==
    IF im.lazyLoaded THEN im
    ELSE IF im.replaced THEN [im EXCEPT !.fetching = @ + 1]
    ELSE im

(* loadSection(section): mark it loaded, stop observing it, load its lazy images *)
loadSection(im) ==
    IF im.sectionLoaded THEN im
    ELSE loadImage([im EXCEPT !.sectionLoaded = TRUE, !.sectionObserved = FALSE,
                              !.sectionEntries = {}])

(* startLazyLoading, for one image and its section: loadCriticalSections, then
   sectionObserver.observe and imageObserver.observe, then preloadCriticalImages *)
startLazyLoading(im) ==
    IF ~im.replaced THEN im
    ELSE LET a == IF im.place = "critical" THEN loadSection(im) ELSE im
             b == [a EXCEPT !.sectionObserved = TRUE,
                            !.sectionEntries = {entryFor(a.view # "no")},
                            !.observed = TRUE,
                            !.entries = {entryFor(a.view = "image")}]
         IN  IF im.place = "project" THEN loadImage(b) ELSE b

(* init(): identifyLazyContent, setupObservers (the hero observer starts to observe) *)
LazyInit ==
    /\ ~lazy.initialized
    /\ lazy' = [lazy EXCEPT !.initialized = TRUE,
                            !.heroEntries = {lazy.heroRatio},
                            !.img = [i \in DOMAIN @ |-> identifyLazyContent(@[i])]]
    /\ UNCHANGED detVars
    /\ UNCHANGED <<app, i18n, promises, calls, queue, inTask, events, translated>>

(* the user scrolls: the visible part of the hero section changes *)
ScrollHero(r) ==
    /\ r # lazy.heroRatio
    /\ LET crossed == \/ (lazy.heroRatio >= HeroThreshold) # (r >= HeroThreshold)
                      \/ (lazy.heroRatio = 0) # (r = 0)
       IN  lazy' = [lazy EXCEPT !.heroRatio = r,
                                !.heroEntries = IF lazy.initialized /\ crossed
                                                THEN @ \cup {r} ELSE @]
    /\ UNCHANGED detVars
    /\ UNCHANGED <<app, i18n, promises, calls, queue, inTask, events, translated>>

(* the user scrolls: image i, or its section, enters or leaves the viewport *)
ScrollImage(i, v) ==
    /\ lazy.img[i].place # "hero"
    /\ v # lazy.img[i].view
    /\ LET im == lazy.img[i]
       IN  lazy' = [lazy EXCEPT !.img[i] =
                       [im EXCEPT !.view = v,
                                  !.entries = IF im.observed /\ (im.view = "image") # (v = "image")
                                              THEN @ \cup {entryFor(v = "image")} ELSE @,
                                  !.sectionEntries =
                                      IF im.sectionObserved /\ (im.view = "no") # (v = "no")
                                      THEN @ \cup {entryFor(v # "no")} ELSE @]]
    /\ UNCHANGED detVars
    /\ UNCHANGED <<app, i18n, promises, calls, queue, inTask, events, translated>>

(* the callback of heroObserver *)
HeroCallback ==
    /\ lazy.heroEntries # {}
    /\ IF (\E r \in lazy.heroEntries : r > 0 /\ r >= HeroThreshold) /\ ~lazy.isHeroVisible
       THEN lazy' = [lazy EXCEPT !.heroEntries = {},
                                 !.isHeroVisible = TRUE,
                                 !.img = [i \in DOMAIN @ |-> startLazyLoading(@[i])]]
       ELSE lazy' = [lazy EXCEPT !.heroEntries = {}]
    /\ UNCHANGED detVars
    /\ UNCHANGED <<app, i18n, promises, calls, queue, inTask, events, translated>>

(* the callback of imageObserver, with the entries queued for image i *)
ImageCallback(i) ==
    /\ lazy.img[i].entries # {}
    /\ lazy.img[i].fetching < MaxFetch
    /\ LET im == [lazy.img[i] EXCEPT !.entries = {}]
       IN  lazy' = [lazy EXCEPT !.img[i] = IF "in" \in lazy.img[i].entries
                                           THEN loadImage(im) ELSE im]
    /\ UNCHANGED detVars
    /\ UNCHANGED <<app, i18n, promises, calls, queue, inTask, events, translated>>

(* the callback of sectionObserver, with the entries queued for the section of image i *)
SectionCallback(i) ==
    /\ lazy.img[i].sectionEntries # {}
    /\ lazy.img[i].fetching < MaxFetch
    /\ LET im == [lazy.img[i] EXCEPT !.sectionEntries = {}]
       IN  lazy' = [lazy EXCEPT !.img[i] = IF "in" \in lazy.img[i].sectionEntries
                                           THEN loadSection(im) ELSE im]
    /\ UNCHANGED detVars
    /\ UNCHANGED <<app, i18n, promises, calls, queue, inTask, events, translated>>

(* newImg.onload or newImg.onerror of a load started by loadImage *)
ImageSettles(i) ==
    /\ lazy.img[i].fetching > 0
    /\ LET im == [lazy.img[i] EXCEPT !.fetching = @ - 1]
       IN  lazy' = [lazy EXCEPT !.img[i] =
                       IF im.loadable
                       THEN [im EXCEPT !.src = "original", !.lazyLoaded = TRUE,
                                       !.observed = FALSE, !.entries = {}]
                       ELSE [im EXCEPT !.error = TRUE]]
    /\ UNCHANGED detVars
    /\ UNCHANGED <<app, i18n, promises, calls, queue, inTask, events, translated>>

LazyNext ==
    \/ LazyInit
    \/ \E r \in HeroRatios : ScrollHero(r)
    \/ \E i \in 1..MaxImages, v \in Views : ScrollImage(i, v)
    \/ HeroCallback
    \/ \E i \in 1..MaxImages : ImageCallback(i)
    \/ \E i \in 1..MaxImages : SectionCallback(i)
    \/ \E i \in 1..MaxImages : ImageSettles(i)

(* the browser delivers every queued observer entry and every load event; the
   user is free to scroll or not *)
LazyFairness ==
    /\ WF_vars(LazyInit)
    /\ WF_vars(HeroCallback)
    /\ \A i \in 1..MaxImages : /\ WF_vars(ImageCallback(i))
                               /\ WF_vars(SectionCallback(i))
                               /\ WF_vars(ImageSettles(i))

SpecLazy == LazyStart /\ [][LazyNext]_vars /\ LazyFairness

(* image i has the placeholder as its src, is in the viewport and its original
   resource can be loaded *)
awaitsRestore(i) ==
    /\ lazy.img[i].replaced
    /\ lazy.img[i].view = "image"
    /\ lazy.img[i].loadable

(* C30: every image whose src identifyLazyContent replaced with the placeholder
   and that scrolls into the viewport, its original resource being loadable,
   eventually has its src restored to the original source, whether or not the
   hero section ever becomes at least 50% visible *)
C30_VisibleImageRestored ==
    \A i \in 1..MaxImages :
        (i \in DOMAIN lazy.img /\ awaitsRestore(i))
            ~> (i \in DOMAIN lazy.img /\ lazy.img[i].src = "original")

====
